---- MODULE Spec2Model ----
(***************************************************************************)
(* State-machine model of the review tool's core:                          *)
(*   - the key vault (KeyManagerService) and its rotation-aware lookup,    *)
(*   - fetchWithRetry, the repo-host request wrapper, with the requests    *)
(*     that fetchRepoDetails keeps in flight concurrently,                 *)
(*   - generateReviewStream and its consumer handleReview,                 *)
(*   - the prompt assembly (chained String.replace over the template),     *)
(*   - the Sidebar effect that splits the streamed text into the           *)
(*     structured block and the narrative.                                 *)
(* Strings are sequences of tokens; secrets are sequences of characters.   *)
(***************************************************************************)
EXTENDS Integers, Sequences, FiniteSets, TLC

VARIABLES
    \* the key vault (KeyManagerService)
    keys,            \* this.keys: sequence of ManagedKey records
    storage,         \* localStorage[STORAGE_KEY]: absent, or the saved list
    envLoaded,       \* this.envLoaded
    envGh,           \* import.meta.env.VITE_GITHUB_TOKEN, split on ","
    envGemini,       \* import.meta.env.VITE_GEMINI_API_KEY, split on ","
    now,             \* Date.now(), in milliseconds
    lastGet,         \* a vault client: its last getValidKey call and the result
    \* the repo-host requests
    reqs,            \* the fetchWithRetry calls of fetchRepoDetails, per slot
    \* generateReviewStream and useReview
    gen,             \* the generator: position, attempt, apiKey, provider calls,
                     \* and whether it returned after a whole stream
    reviewMarkdown,  \* useReview state (the Sidebar's markdown prop)
    isReviewing,     \* useReview state (the Sidebar's isGenerating prop)
    viewState,       \* Dashboard view state
    usageMetadata,   \* useReview state
    aiAnalysis,      \* useReview state, set by handleAnalysisComplete
    \* the Sidebar
    pending,         \* the text the provider has still to deliver in this run
    localResult,     \* Sidebar state
    cleanMarkdown,   \* Sidebar state: the narrative shown, copied and exported
    emitCount,       \* onAnalysisComplete calls made during the current run
    \* the prompt assembly
    data,            \* ReviewRequestData of the loaded repository
    prompt,          \* the prompt assembled for it
    step,            \* 1 when the prompt has been assembled for data, else 0
    \* the ranking step of fetchFileContents
    files,           \* the FileNode list fetchFileContents was called with
    sortedFiles,     \* the files it selected, in rank order
    prevSorted,      \* the selection of the previous ranking of the same list
    rankPc,          \* "none", "tree" (list received), "ranked", "reranked"
    \* fetchRepoDetails
    collect,         \* one call: position, requests issued, and the bundle so far
    \* useRepository
    repoInfo,        \* the metadata of the loaded repository, or null
    \* generateReviewStreamOllama
    ollama           \* the read loop: bytes still to come, events yielded, counters

vaultVars == <<keys, storage, envLoaded, envGh, envGemini, now>>
reviewVars == <<gen, reviewMarkdown, isReviewing, viewState, usageMetadata, aiAnalysis>>
sidebarVars == <<pending, localResult, cleanMarkdown, emitCount>>
promptVars == <<data, prompt, step>>
rankVars == <<files, sortedFiles, prevSorted, rankPc>>
collectVars == <<collect>>
repositoryVars == <<repoInfo>>
ollamaVars == <<ollama>>
vars == <<vaultVars, lastGet, reqs, reviewVars, sidebarVars, promptVars, rankVars,
          collectVars, repositoryVars, ollamaVars>>

----------------------------------------------------------------------------
(* Bounds of the model *)

MaxKeys == 2          \* addKey is not applied to a vault of this many keys
MaxNow == 60001       \* the clock is not advanced beyond this time
MaxInFlight == 2      \* concurrently in-flight fetchWithRetry calls modelled
MaxRejects == 7       \* longest run of 403/429 answers a mocked service gives
MaxChunks == 2        \* chunks one provider stream delivers at most
MaxInjected == 1      \* evidence fields that carry a dollar sequence at most
MaxSegments == 2      \* segments (narrative or fenced block) of one model output
MaxPicked == 2        \* blobs of the small repository trees
MaxCommits == 2       \* commits of a repository
MaxClicks == 3        \* keys added from the settings form
MaxLines == 2         \* lines the local daemon sends before its last line
MaxRead == 8          \* tokens one network read delivers at most
MaxFaults == 1        \* requests of one fetchRepoDetails call that do not succeed

(* Program constants *)

RateLimitMs == 60000  \* markRateLimited: Date.now() + 60000
MaxRetries == 5       \* fetchWithRetry: if (attempt < 5)
maxAttempts == 3      \* generateReviewStream: const maxAttempts = 3
ReadmeCap == 6000     \* data.readme.substring(0, 6000)

Null == <<"null">>
NoItem == [present |-> FALSE, items |-> <<>>]
S1 == <<"k", "1">>
S2 == <<"k", "2">>
S3 == <<"k", "3">>
Secrets == {S1, S2}
KeyTypes == {"github", "gemini"}
Slots == 1..MaxInFlight

----------------------------------------------------------------------------
(* Sequence helpers *)

RECURSIVE Reverse(_)
Reverse(s) == IF s = <<>> THEN <<>> ELSE Append(Reverse(Tail(s)), Head(s))

\* keys.findIndex(k => k.token === token), scanning from index i: the first
\* index holding the token, 0 when there is none (JavaScript's -1).
RECURSIVE findIndexOfToken(_, _, _)
findIndexOfToken(ks, token, i) ==
    IF i > Len(ks) THEN 0
    ELSE IF ks[i].token = token THEN i
    ELSE findIndexOfToken(ks, token, i + 1)

----------------------------------------------------------------------------
(* The key vault *)

\* obfuscate: btoa(text.split("").reverse().join("")); btoa is injective and
\* is kept as a wrapper around the reversed text.
obfuscate(text) == [b64 |-> Reverse(text)]

\* deobfuscate: atob(text).split("").reverse().join("")
deobfuscate(text) == Reverse(text.b64)

\* saveKeys: the value written to localStorage.
saveKeys(ks) ==
    [present |-> TRUE,
     items |-> [i \in 1..Len(ks) |-> [ks[i] EXCEPT !.token = obfuscate(ks[i].token)]]]

\* loadKeys: the keys read back from localStorage.
loadKeys(st) ==
    IF ~st.present THEN <<>>
    ELSE [i \in 1..Len(st.items) |->
            [st.items[i] EXCEPT !.token = deobfuscate(st.items[i].token)]]

\* token.split(",").map(t => t.trim()).filter(Boolean): the empty items go.
SplitTokens(env) == SelectSeq(env, LAMBDA t : t # <<>>)

\* addEnvKey: tokens.forEach((t, i) => { if (!keys.some(k => k.token === t)) push })
\* i is the 0-based index of t in the filtered list.
RECURSIVE addEnvKeyFrom(_, _, _, _)
addEnvKeyFrom(ks, tokens, type, i) ==
    IF i >= Len(tokens) THEN ks
    ELSE LET t == tokens[i + 1]
             ks2 == IF \E j \in 1..Len(ks) : ks[j].token = t
                    THEN ks
                    ELSE Append(ks, [id |-> <<"env", type, i>>, type |-> type,
                                     token |-> t, isRateLimitedUntil |-> 0])
         IN addEnvKeyFrom(ks2, tokens, type, i + 1)

addEnvKey(ks, env, type) == addEnvKeyFrom(ks, SplitTokens(env), type, 0)

\* loadEnvKeys: the keys after the call (a no-op once envLoaded is set).
loadEnvKeys(ks, loaded, gh, gem) ==
    IF loaded THEN ks
    ELSE addEnvKey(addEnvKey(ks, gh, "github"), gem, "gemini")

IsUsableInclusive(k, t) == k.isRateLimitedUntil = 0 \/ k.isRateLimitedUntil <= t

\* The filter of getValidKey: !k.isRateLimitedUntil || k.isRateLimitedUntil < now
\* (0 stands for the unset field; both are falsy).
IsUsable(k, t) == k.isRateLimitedUntil = 0 \/ k.isRateLimitedUntil < t

\* getValidKey on a vault whose environment keys are loaded.
getValidKey(ks, type, t) ==
    LET ofType == SelectSeq(ks, LAMBDA k : k.type = type)
        validKeys == SelectSeq(ofType, LAMBDA k : IsUsable(k, t))
    IN IF Len(validKeys) = 0 THEN Null ELSE validKeys[1].token

markRateLimitedFirstEntry(ks, token, t) ==
    IF Len(ks) > 0
    THEN [ks EXCEPT ![1].isRateLimitedUntil = t + RateLimitMs]
    ELSE ks

\* markRateLimited: the first key holding the token gets now + 60000.
markRateLimited(ks, token, t) ==
    LET keyIndex == findIndexOfToken(ks, token, 1)
    IN IF keyIndex # 0
       THEN [ks EXCEPT ![keyIndex].isRateLimitedUntil = t + RateLimitMs]
       ELSE ks

\* addKey: push, with id Date.now().toString().
addKey(ks, type, token, t) ==
    Append(ks, [id |-> <<"ts", "", t>>, type |-> type, token |-> token,
                isRateLimitedUntil |-> 0])

\* removeKey: keys.filter(k => k.id !== id)
removeKey(ks, id) == SelectSeq(ks, LAMBDA k : k.id # id)

----------------------------------------------------------------------------
(* Vault operations as called from the settings modal and other callers *)

AddKey(type, token) ==
    /\ Len(keys) < MaxKeys
    /\ keys' = addKey(keys, type, token, now)
    /\ storage' = saveKeys(keys')
    /\ UNCHANGED <<envLoaded, envGh, envGemini, now, lastGet, reqs, reviewVars, sidebarVars, promptVars, rankVars,
                   collectVars, repositoryVars, ollamaVars>>

RemoveKey(id) ==
    /\ keys' = removeKey(keys, id)
    /\ storage' = saveKeys(keys')
    /\ UNCHANGED <<envLoaded, envGh, envGemini, now, lastGet, reqs, reviewVars, sidebarVars, promptVars, rankVars,
                   collectVars, repositoryVars, ollamaVars>>

GetKeys ==
    /\ keys' = loadEnvKeys(keys, envLoaded, envGh, envGemini)
    /\ envLoaded' = TRUE
    /\ UNCHANGED <<storage, envGh, envGemini, now, lastGet, reqs, reviewVars, sidebarVars, promptVars, rankVars,
                   collectVars, repositoryVars, ollamaVars>>

\* A client of the vault asks for a key of a class.
GetValidKey(type) ==
    /\ keys' = loadEnvKeys(keys, envLoaded, envGh, envGemini)
    /\ envLoaded' = TRUE
    /\ lastGet' = [type |-> type, result |-> getValidKey(keys', type, now),
                   seq |-> 1 - lastGet.seq]
    /\ UNCHANGED <<storage, envGh, envGemini, now, reqs, reviewVars, sidebarVars, promptVars, rankVars,
                   collectVars, repositoryVars, ollamaVars>>

\* The client reports the key it was given as rejected by the service, as
\* fetchWithRetry and generateReviewStream do.
MarkRateLimited ==
    /\ lastGet.result # Null
    /\ keys' = markRateLimited(keys, lastGet.result, now)
    /\ UNCHANGED <<storage, envLoaded, envGh, envGemini, now, lastGet, reqs,
                   reviewVars, sidebarVars, promptVars, rankVars, collectVars, repositoryVars, ollamaVars>>

\* Time passes between two tasks of the event loop.
TimeSteps == {RateLimitMs, RateLimitMs + 1}

Tick(d) ==
    /\ now + d <= MaxNow
    /\ now' = now + d
    /\ UNCHANGED <<keys, storage, envLoaded, envGh, envGemini, lastGet, reqs, reviewVars, sidebarVars, promptVars, rankVars,
                   collectVars, repositoryVars, ollamaVars>>

----------------------------------------------------------------------------
(* fetchWithRetry and the mocked repo-host service *)

\* What the service does with one request: the first `rejects` attempts are
\* answered rejectStatus, every later one is answered `final`, or the fetch
\* itself rejects (network error) when `throws` is set.
Scripts ==
    { [rejects |-> 0, rejectStatus |-> 429, final |-> 200, throws |-> FALSE],
      [rejects |-> 0, rejectStatus |-> 429, final |-> 404, throws |-> FALSE],
      [rejects |-> 2, rejectStatus |-> 429, final |-> 200, throws |-> FALSE],
      [rejects |-> 1, rejectStatus |-> 403, final |-> 500, throws |-> TRUE],
      [rejects |-> MaxRejects, rejectStatus |-> 403, final |-> 200, throws |-> FALSE] }

NoScript == [rejects |-> 0, rejectStatus |-> 429, final |-> 200, throws |-> FALSE]

\* The status of the n-th HTTP attempt (n counted from 1).
StatusAt(script, n) == IF n <= script.rejects THEN script.rejectStatus ELSE script.final

\* Whether the n-th fetch rejects instead of resolving to a response.
ThrowsAt(script, n) == script.throws /\ n > script.rejects

IdleReq == [pc |-> "idle", script |-> NoScript, attempt |-> 0, token |-> Null,
            marks |-> 0, threw |-> FALSE, result |-> 0]

\* response.status === 403 || response.status === 429
IsRateLimitStatusOnly429(status) == status = 429

IsRateLimitStatus(status) == status = 403 \/ status = 429

\* if (attempt < 5) -- "Max 5 retries"
ShouldRetryOffByOne(attempt) == attempt <= MaxRetries

ShouldRetry(attempt) == attempt < MaxRetries

\* The number of HTTP attempts a call has made so far.
HttpAttempts(q) == IF q.pc = "idle" THEN 0 ELSE q.attempt + 1

\* fetchWithRetry(url) up to its first await: getValidKey, headers, fetch.
StartFetch(r, script) ==
    /\ reqs[r].pc \in {"idle", "done"}
    /\ keys' = loadEnvKeys(keys, envLoaded, envGh, envGemini)
    /\ envLoaded' = TRUE
    /\ reqs' = [reqs EXCEPT ![r] =
                  [pc |-> "awaiting", script |-> script, attempt |-> 0,
                   token |-> getValidKey(keys', "github", now),
                   marks |-> 0, threw |-> FALSE, result |-> 0]]
    /\ UNCHANGED <<storage, envGh, envGemini, now, lastGet, reviewVars, sidebarVars, promptVars, rankVars,
                   collectVars, repositoryVars, ollamaVars>>

\* The awaited fetch settles: everything fetchWithRetry does from there to
\* its next await (the recursive call's fetch) or to its return.
SettleFetch(r) ==
    LET q == reqs[r]
        n == q.attempt + 1
        status == StatusAt(q.script, n)
        mark == IsRateLimitStatus(status) /\ q.token # Null
        retry == mark /\ ShouldRetry(q.attempt)
        marked == IF mark THEN markRateLimited(keys, q.token, now) ELSE keys
    IN /\ q.pc = "awaiting"
       /\ IF ThrowsAt(q.script, n)
          THEN /\ reqs' = [reqs EXCEPT ![r].pc = "done", ![r].threw = TRUE]
               /\ UNCHANGED <<keys, envLoaded, collectVars, repositoryVars, ollamaVars>>
          ELSE /\ keys' = IF retry
                          THEN loadEnvKeys(marked, envLoaded, envGh, envGemini)
                          ELSE marked
               /\ envLoaded' = (envLoaded \/ retry)
               /\ reqs' = [reqs EXCEPT ![r] =
                    IF retry
                    THEN [q EXCEPT !.attempt = q.attempt + 1,
                                   !.token = getValidKey(keys', "github", now),
                                   !.marks = q.marks + 1]
                    ELSE [q EXCEPT !.pc = "done", !.result = status,
                                   !.marks = q.marks + (IF mark THEN 1 ELSE 0)]]
       /\ UNCHANGED <<storage, envGh, envGemini, now, lastGet, reviewVars, sidebarVars, promptVars, rankVars,
                      collectVars, repositoryVars, ollamaVars>>

----------------------------------------------------------------------------
(* Initial values of the parts a specification leaves at rest *)

NoGet == [type |-> "none", result |-> Null, seq |-> 0]
IdleGen ==
    [pc |-> "idle", attempt |-> 0, apiKey |-> Null, chunks |-> 0, calls |-> 0,
     completed |-> FALSE]
NoData == <<>>

FetchAtRest == reqs = [r \in Slots |-> IdleReq]

ReviewAtRest ==
    /\ gen = IdleGen
    /\ reviewMarkdown = <<>>
    /\ isReviewing = FALSE
    /\ viewState = "IDLE"
    /\ usageMetadata = Null
    /\ aiAnalysis = Null

SidebarAtRest ==
    /\ pending = <<>>
    /\ localResult = Null
    /\ cleanMarkdown = <<>>
    /\ emitCount = 0

PromptAtRest ==
    /\ data = NoData
    /\ prompt = <<>>
    /\ step = 0

RankAtRest ==
    /\ files = <<>>
    /\ sortedFiles = <<>>
    /\ prevSorted = <<>>
    /\ rankPc = "none"

\* A repository without default branch, commits and tree.
NoRepo == [default_branch |-> FALSE, commits |-> 0, tree |-> <<>>]

\* fetchRepoDetails has not been called.
IdleCollect ==
    [pc |-> "idle", repo |-> NoRepo, issued |-> {}, faults |-> 0, readmeRes |-> "none",
     commits |-> <<>>, pullRequests |-> <<>>, branches |-> <<>>, contributors |-> <<>>,
     files |-> <<>>, readme |-> "", languages |-> "{}", error |-> ""]

CollectAtRest == collect = IdleCollect

\* data.info of a repository that was fetched.
RepoLoaded == <<"info">>

RepositoryAtRest == repoInfo = Null

\* generateReviewStreamOllama has not been called.
IdleOllama ==
    [pc |-> "idle", sent |-> <<>>, rest |-> <<>>, texts |-> <<>>, usage |-> <<>>,
     promptTokens |-> 0, totalTokens |-> 0]

OllamaAtRest == ollama = IdleOllama

\* The vault after construction: the constructor reads localStorage; the
\* environment is whatever the build was given.
VaultConstructed(stores, ghs, gems) ==
    /\ storage \in stores
    /\ keys = loadKeys(storage)
    /\ envLoaded = FALSE
    /\ envGh \in ghs
    /\ envGemini \in gems
    /\ now = 0
    /\ lastGet = NoGet

----------------------------------------------------------------------------
(* Spec: the vault under the settings modal and one repo-host request at a
   time (the metadata request of fetchRepoDetails and its successors) *)

EnvGhChoices == {<<>>, <<S1, <<>>, S2>>}
EnvGeminiChoices == {<<>>, <<S3, S3>>}

Init ==
    /\ VaultConstructed({NoItem}, EnvGhChoices, {<<>>})
    /\ FetchAtRest
    /\ ReviewAtRest
    /\ SidebarAtRest
    /\ PromptAtRest
    /\ RankAtRest
    /\ CollectAtRest
    /\ RepositoryAtRest
    /\ OllamaAtRest

KeyIds == {keys[i].id : i \in 1..Len(keys)}

Next ==
    \/ \E type \in KeyTypes, token \in Secrets : AddKey(type, token)
    \/ \E id \in KeyIds : RemoveKey(id)
    \/ GetKeys
    \/ \E d \in TimeSteps : Tick(d)
    \/ \E script \in Scripts : StartFetch(1, script)
    \/ SettleFetch(1)

Spec == Init /\ [][Next]_vars

----------------------------------------------------------------------------
(* SpecVault: the vault alone, under a client that follows the callers'
   protocol (ask for a key, use it, report it when it was rejected) *)

NextVault ==
    \/ \E type \in KeyTypes, token \in Secrets : AddKey(type, token)
    \/ \E id \in KeyIds : RemoveKey(id)
    \/ GetKeys
    \/ \E type \in KeyTypes : GetValidKey(type)
    \/ MarkRateLimited
    \/ \E d \in TimeSteps : Tick(d)

InitVault ==
    /\ VaultConstructed({NoItem}, EnvGhChoices, EnvGeminiChoices)
    /\ FetchAtRest
    /\ ReviewAtRest
    /\ SidebarAtRest
    /\ PromptAtRest
    /\ RankAtRest
    /\ CollectAtRest
    /\ RepositoryAtRest
    /\ OllamaAtRest

SpecVault == InitVault /\ [][NextVault]_vars

----------------------------------------------------------------------------
(* SpecSessions: the vault over several sessions of the page.  A reload
   constructs the vault anew from localStorage; the build environment may
   differ from one session to the next.  Keys are added from the settings
   form, each at a later millisecond than the one before. *)

EnvGhLater == EnvGhChoices \cup {<<S3>>}

\* The settings form adds a key some time after the last vault operation.
AddKeyLater(type, token) ==
    /\ Len(keys) < MaxKeys
    /\ now < MaxClicks
    /\ now' = now + 1
    /\ keys' = addKey(keys, type, token, now')
    /\ storage' = saveKeys(keys')
    /\ UNCHANGED <<envLoaded, envGh, envGemini, lastGet, reqs, reviewVars, sidebarVars,
                   promptVars, rankVars, collectVars, repositoryVars, ollamaVars>>

\* The page is loaded again: the module is evaluated anew and the constructor
\* reads localStorage.
Reload(gh, gem) ==
    /\ keys' = loadKeys(storage)
    /\ envLoaded' = FALSE
    /\ envGh' = gh
    /\ envGemini' = gem
    /\ lastGet' = NoGet
    /\ UNCHANGED <<storage, now, reqs, reviewVars, sidebarVars, promptVars, rankVars,
                   collectVars, repositoryVars, ollamaVars>>

InitSessions ==
    /\ VaultConstructed({NoItem}, EnvGhChoices, EnvGeminiChoices)
    /\ FetchAtRest
    /\ ReviewAtRest
    /\ SidebarAtRest
    /\ PromptAtRest
    /\ RankAtRest
    /\ CollectAtRest
    /\ RepositoryAtRest
    /\ OllamaAtRest

NextSessions ==
    \/ \E type \in KeyTypes, token \in Secrets : AddKeyLater(type, token)
    \/ \E id \in KeyIds : RemoveKey(id)
    \/ GetKeys
    \/ \E type \in KeyTypes : GetValidKey(type)
    \/ MarkRateLimited
    \/ \E gh \in EnvGhLater, gem \in EnvGeminiChoices : Reload(gh, gem)

SpecSessions == InitSessions /\ [][NextSessions]_vars

----------------------------------------------------------------------------
(* SpecParallel: the requests fetchRepoDetails issues in one Promise.all,
   in flight together over a vault left by an earlier session *)

StoredKey(n, type, token) ==
    [id |-> <<"ts", "", n>>, type |-> type, token |-> token,
     isRateLimitedUntil |-> 0]

StoredVaults ==
    { NoItem,
      saveKeys(<<StoredKey(1, "github", S1)>>),
      saveKeys(<<StoredKey(1, "github", S1), StoredKey(2, "github", S2)>>),
      saveKeys(<<StoredKey(1, "github", S1), StoredKey(2, "github", S1)>>) }

InitParallel ==
    /\ VaultConstructed(StoredVaults, {<<>>}, {<<>>})
    /\ FetchAtRest
    /\ ReviewAtRest
    /\ SidebarAtRest
    /\ PromptAtRest
    /\ RankAtRest
    /\ CollectAtRest
    /\ RepositoryAtRest
    /\ OllamaAtRest

NextParallel ==
    \/ \E r \in Slots, script \in Scripts : StartFetch(r, script)
    \/ \E r \in Slots : SettleFetch(r)
    \/ \E d \in TimeSteps : Tick(d)

SpecParallel == InitParallel /\ [][NextParallel]_vars

----------------------------------------------------------------------------
(* generateReviewStream (api/gemini) and its consumer handleReview *)

\* Events and texts are triples: a text chunk of the provider carries the
\* number of the stream attempt that delivered it and its index in it.
TextOf(attemptNo, k) == <<"text", attemptNo, k>>
UsageOf(attemptNo, k) == <<"usage", attemptNo, k>>
ErrNoKey == <<"error", "No valid Gemini API Key found.", 0>>
ErrExhausted == <<"error", "Rate limit exceeded on all available keys.", 0>>
ErrUpstream(message) == <<"error", message, 0>>

\* What a chunk of the provider's stream carries: chunk.text, chunk.usageMetadata.
ChunkKinds == {[text |-> TRUE, usage |-> FALSE], [text |-> FALSE, usage |-> TRUE],
               [text |-> TRUE, usage |-> TRUE]}

\* The message of an error thrown by the provider call or stream: rejections
\* with status 429 and 403, and internal errors, one of which quotes a
\* request number.
ErrorKinds ==
    {"429 Too Many Requests", "403 Forbidden", "500 Internal",
     "500 Internal, request 14293"}

\* message.includes(code) for the codes the catch block looks for.
includes(message, code) ==
    \/ code = "429" /\ message \in {"429 Too Many Requests", "500 Internal, request 14293"}
    \/ code = "403" /\ message = "403 Forbidden"

\* errorMessage.includes('429') || errorMessage.includes('403')
IsRateLimitError(kind) == includes(kind, "429") \/ includes(kind, "403")

\* A loop head without the `if (!apiKey)` branch.
LoopHeadWithoutKeyCheck(ks, attempt, yielded, calls) ==
    [gen |-> [pc |-> IF attempt < maxAttempts THEN "streaming" ELSE "done",
              attempt |-> attempt, apiKey |-> getValidKey(ks, "gemini", now),
              chunks |-> 0,
              calls |-> IF attempt < maxAttempts THEN calls + 1 ELSE calls,
              completed |-> FALSE],
     events |-> yielded]

\* A loop that runs while attempt <= maxAttempts.
LoopHeadOneMore(ks, attempt, yielded, calls) ==
    IF attempt <= maxAttempts
    THEN LET apiKey == getValidKey(ks, "gemini", now) IN
         IF apiKey = Null
         THEN [gen |-> [pc |-> "done", attempt |-> attempt, apiKey |-> Null,
                        chunks |-> 0, calls |-> calls, completed |-> FALSE],
               events |-> Append(yielded, ErrNoKey)]
         ELSE [gen |-> [pc |-> "streaming", attempt |-> attempt, apiKey |-> apiKey,
                        chunks |-> 0, calls |-> calls + 1, completed |-> FALSE],
               events |-> yielded]
    ELSE [gen |-> [pc |-> "done", attempt |-> attempt, apiKey |-> Null, chunks |-> 0,
                   calls |-> calls, completed |-> FALSE],
          events |-> yielded]

\* The generator from the head of its while loop to its next suspension:
\* the result is the generator state and the events yielded on the way.
\* `yielded` are the events already yielded in this span, `calls` the calls
\* of ai.models.generateContentStream made so far in this run.
LoopHead(ks, attempt, yielded, calls) ==
    IF attempt < maxAttempts
    THEN LET apiKey == getValidKey(ks, "gemini", now) IN
         IF apiKey = Null
         THEN [gen |-> [pc |-> "done", attempt |-> attempt, apiKey |-> Null,
                        chunks |-> 0, calls |-> calls, completed |-> FALSE],
               events |-> Append(yielded, ErrNoKey)]
         ELSE [gen |-> [pc |-> "streaming", attempt |-> attempt, apiKey |-> apiKey,
                        chunks |-> 0, calls |-> calls + 1,
                        completed |-> FALSE],
               events |-> yielded]
    ELSE [gen |-> [pc |-> "done", attempt |-> attempt, apiKey |-> Null, chunks |-> 0,
                   calls |-> calls, completed |-> FALSE],
          events |-> yielded]

\* The for-await loop of handleReview applied to the yielded events:
\* setReviewMarkdown(prev => prev + chunk.content)
RECURSIVE AppendTexts(_, _)
AppendTexts(md, events) ==
    IF events = <<>> THEN md
    ELSE AppendTexts(IF Head(events)[1] = "usage" THEN md ELSE Append(md, Head(events)),
                     Tail(events))

\* setUsageMetadata(chunk.data) for the usage events among the yielded ones.
RECURSIVE LastUsage(_, _)
LastUsage(usage, events) ==
    IF events = <<>> THEN usage
    ELSE LastUsage(IF Head(events)[1] = "usage" THEN Head(events) ELSE usage,
                   Tail(events))

\* A handleReview that leaves reviewing only after a stream that completed
\* (no finally block).
ConsumeWithoutFinally(g, events) ==
    /\ gen' = g
    /\ reviewMarkdown' = AppendTexts(reviewMarkdown, events)
    /\ usageMetadata' = LastUsage(usageMetadata, events)
    /\ isReviewing' = IF g.pc = "done" /\ g.completed THEN FALSE ELSE isReviewing
    /\ viewState' = IF g.pc = "done" /\ g.completed THEN "REPO_LOADED" ELSE viewState
    /\ UNCHANGED aiAnalysis

\* handleReview consumes the events of one span of the generator; when the
\* generator has returned, its finally block runs.
Consume(g, events) ==
    /\ gen' = g
    /\ reviewMarkdown' = AppendTexts(reviewMarkdown, events)
    /\ usageMetadata' = LastUsage(usageMetadata, events)
    /\ isReviewing' = IF g.pc = "done" THEN FALSE ELSE isReviewing
    /\ viewState' = IF g.pc = "done" THEN "REPO_LOADED" ELSE viewState
    /\ UNCHANGED aiAnalysis

\* handleReview up to the generator's first suspension.
HandleReview ==
    /\ ~isReviewing
    /\ viewState = "REPO_LOADED"
    /\ keys' = loadEnvKeys(keys, envLoaded, envGh, envGemini)
    /\ envLoaded' = TRUE
    /\ LET r == LoopHead(keys', 0, <<>>, 0) IN
       /\ gen' = r.gen
       /\ reviewMarkdown' = AppendTexts(<<>>, r.events)
       /\ usageMetadata' = Null
       /\ isReviewing' = (r.gen.pc # "done")
       /\ viewState' = IF r.gen.pc = "done" THEN "REPO_LOADED" ELSE "ANALYZING"
    /\ UNCHANGED <<storage, envGh, envGemini, now, lastGet, reqs, aiAnalysis,
                   sidebarVars, promptVars, rankVars, collectVars, repositoryVars, ollamaVars>>

\* The provider's stream delivers one chunk.
StreamChunk(kind) ==
    /\ gen.pc = "streaming"
    /\ gen.chunks < MaxChunks
    /\ LET k == gen.chunks + 1
           events == (IF kind.text THEN <<TextOf(gen.attempt + 1, k)>> ELSE <<>>)
                     \o (IF kind.usage THEN <<UsageOf(gen.attempt + 1, k)>> ELSE <<>>)
       IN Consume([gen EXCEPT !.chunks = k], events)
    /\ UNCHANGED <<vaultVars, lastGet, reqs, sidebarVars, promptVars, rankVars, collectVars, repositoryVars, ollamaVars>>

\* The provider's stream ends: the generator returns.
StreamEnd ==
    /\ gen.pc = "streaming"
    /\ Consume([gen EXCEPT !.pc = "done", !.completed = TRUE], <<>>)
    /\ UNCHANGED <<vaultVars, lastGet, reqs, sidebarVars, promptVars, rankVars, collectVars, repositoryVars, ollamaVars>>

\* A catch block that never reports the exhausted attempts.
ExhaustedEventsNone(attempt) == <<>>

\* if (attempt === maxAttempts) yield the rate-limit-exceeded error
ExhaustedEvents(attempt) ==
    IF attempt = maxAttempts THEN <<ErrExhausted>> ELSE <<>>

\* The provider call or its stream throws: the catch block and, after a
\* rate-limit error, the next turn of the loop.
StreamError(kind) ==
    /\ gen.pc = "streaming"
    /\ IF IsRateLimitError(kind)
       THEN LET attempt == gen.attempt + 1
                yielded == ExhaustedEvents(attempt)
            IN /\ keys' = loadEnvKeys(markRateLimited(keys, gen.apiKey, now),
                                      envLoaded, envGh, envGemini)
               /\ LET r == LoopHead(keys', attempt, yielded, gen.calls)
                  IN Consume(r.gen, r.events)
       ELSE /\ keys' = keys
            /\ Consume([gen EXCEPT !.pc = "done"], <<ErrUpstream(kind)>>)
    /\ UNCHANGED <<storage, envLoaded, envGh, envGemini, now, lastGet, reqs,
                   sidebarVars, promptVars, rankVars, collectVars, repositoryVars, ollamaVars>>

----------------------------------------------------------------------------
(* SpecReview: review runs over a vault left by an earlier session *)

StoredGeminiVaults ==
    { NoItem,
      saveKeys(<<StoredKey(1, "gemini", S1)>>),
      saveKeys(<<StoredKey(1, "gemini", S1), StoredKey(2, "gemini", S2)>>),
      saveKeys(<<StoredKey(1, "gemini", S1), StoredKey(2, "gemini", S1)>>),
      saveKeys(<<StoredKey(1, "github", S1), StoredKey(1, "gemini", S2)>>) }

InitReview ==
    /\ VaultConstructed(StoredGeminiVaults, {<<>>}, EnvGeminiChoices)
    /\ FetchAtRest
    /\ gen = IdleGen
    /\ reviewMarkdown = <<>>
    /\ isReviewing = FALSE
    /\ viewState = "REPO_LOADED"
    /\ usageMetadata = Null
    /\ aiAnalysis = Null
    /\ SidebarAtRest
    /\ PromptAtRest
    /\ RankAtRest
    /\ CollectAtRest
    /\ repoInfo = RepoLoaded
    /\ OllamaAtRest

NextReview ==
    \/ HandleReview
    \/ \E kind \in ChunkKinds : StreamChunk(kind)
    \/ StreamEnd
    \/ \E kind \in ErrorKinds : StreamError(kind)
    \/ \E d \in TimeSteps : Tick(d)

SpecReview == InitReview /\ [][NextReview]_vars

\* Every provider stream is finite: a stream that is open delivers its next
\* chunk, ends or throws.
StreamStep ==
    \/ \E kind \in ChunkKinds : StreamChunk(kind)
    \/ StreamEnd
    \/ \E kind \in ErrorKinds : StreamError(kind)

SpecReviewLive == SpecReview /\ WF_vars(StreamStep)

\* C3: when stream attempts failed with 429/403 after yielding text, the text
\* the consumer ends up with holds none of the failed attempts' chunks (the
\* failed attempts of a run are those numbered up to gen.attempt).
C3_FailedOutputDiscarded ==
    gen.pc = "done" =>
        \A i \in 1..Len(reviewMarkdown) :
            reviewMarkdown[i][1] = "text" => reviewMarkdown[i][2] > gen.attempt

----------------------------------------------------------------------------
(* Prompt assembly of generateReviewStream (services/geminiService, ollama) *)

\* Texts are sequences of tokens; a placeholder and a replacement pattern are
\* one token each, and [fence] stands for a line of three backticks.
Placeholders ==
    <<"${readmeContext}", "${treeContext}", "${languageContext}", "${commitContext}",
      "${prContext}", "${fileContent}", "${contributorContext}">>

\* The section of the template of prompt() that holds the placeholders.
promptTemplate ==
    <<"[fence]text", "${readmeContext}", "${treeContext}", "${languageContext}",
      "--- COMMIT HISTORY ---", "${commitContext}",
      "--- PULL REQUESTS ---", "${prContext}",
      "--- SIGNIFICANT CODE SNIPPETS ---", "${fileContent}",
      "--- CONTRIBUTORS ---", "${contributorContext}", "[fence]">>

\* The sequences String.prototype.replace interprets in a replacement string:
\* dollar dollar, dollar ampersand, dollar backtick and dollar apostrophe.
ReplacementPatterns == {"$$", "$&", "$backtick", "$apostrophe"}

\* text.substring(0, n)
substring0(text, n) == SubSeq(text, 1, IF Len(text) < n THEN Len(text) ELSE n)

readmeContext(d) ==
    IF d.readme # <<>>
    THEN <<"--- README ---">> \o substring0(d.readme, ReadmeCap) \o <<"--- END README ---">>
    ELSE <<"No README available.">>

treeContext(d) ==
    <<"--- FILE TREE ---">> \o [i \in 1..Len(d.files) |-> d.files[i].path]
        \o <<"--- END TREE ---">>

languageContext(d) == <<"--- LANGUAGES ---", d.languages, "--- END LANGUAGES ---">>

RECURSIVE JoinSnippets(_)
JoinSnippets(fs) ==
    IF fs = <<>> THEN <<>>
    ELSE <<"--- SIGNIFICANT CODE SNIPPET: ", Head(fs).path>> \o Head(fs).content
            \o <<"--- END SNIPPET ---">> \o JoinSnippets(Tail(fs))

HasContent(f) == f.content # <<>>

fileContent(d) ==
    LET significantFiles == SelectSeq(d.files, HasContent) IN
    IF Len(significantFiles) > 0 THEN JoinSnippets(significantFiles)
    ELSE <<"No significant code snippets available.">>

RECURSIVE JoinCommits(_)
JoinCommits(cs) ==
    IF cs = <<>> THEN <<>>
    ELSE <<"SHA: Msg: ">> \o Head(cs) \o <<"Author: Diff Summary: Patch Snippet: ">>
            \o JoinCommits(Tail(cs))

commitContext(d) == JoinCommits(d.commits)

RECURSIVE JoinPulls(_)
JoinPulls(prs) ==
    IF prs = <<>> THEN <<>>
    ELSE <<"PR #: User: Body: ">> \o Head(prs) \o JoinPulls(Tail(prs))

prContext(d) == JoinPulls(d.pullRequests)

contributorContext(d) == d.contributors

\* The first index of token pat in text, 0 when it does not occur.
RECURSIVE indexOf(_, _, _)
indexOf(text, pat, i) ==
    IF i > Len(text) THEN 0
    ELSE IF text[i] = pat THEN i
    ELSE indexOf(text, pat, i + 1)

\* The replacement string as String.prototype.replace inserts it: dollar
\* dollar is a dollar sign, dollar ampersand the matched text, dollar backtick
\* the text before the match and dollar apostrophe the text after it.
RECURSIVE GetSubstitution(_, _, _, _)
GetSubstitution(repl, before, matched, after) ==
    IF repl = <<>> THEN <<>>
    ELSE (CASE Head(repl) = "$$" -> <<"$">>
            [] Head(repl) = "$&" -> <<matched>>
            [] Head(repl) = "$backtick" -> before
            [] Head(repl) = "$apostrophe" -> after
            [] OTHER -> <<Head(repl)>>)
         \o GetSubstitution(Tail(repl), before, matched, after)

\* text.replace(pat, repl) with a string pattern: the first occurrence only.
replace(text, pat, repl) ==
    LET i == indexOf(text, pat, 1) IN
    IF i = 0 THEN text
    ELSE LET before == SubSeq(text, 1, i - 1)
             after == SubSeq(text, i + 1, Len(text))
         IN before \o GetSubstitution(repl, before, pat, after) \o after

\* The evidence blocks in the order of the placeholders.
Contexts(d) ==
    <<readmeContext(d), treeContext(d), languageContext(d), commitContext(d),
      prContext(d), fileContent(d), contributorContext(d)>>

\* basePrompt.replace(...).replace(...) ... : the chain of seven replaces.
RECURSIVE replaceChain(_, _, _)
replaceChain(text, ctx, i) ==
    IF i > Len(Placeholders) THEN text
    ELSE replaceChain(replace(text, Placeholders[i], ctx[i]), ctx, i + 1)

buildPrompt(d) == replaceChain(promptTemplate, Contexts(d), 1)

\* The request data of one review: the dollar sequences the text of a repository can
\* hold are placeholder syntax and replacement patterns.
Payloads == {Placeholders[i] : i \in 1..Len(Placeholders)} \cup ReplacementPatterns

TextsOf(word) == {<<word>>} \cup {<<word, p>> : p \in Payloads}

HasPayload(text) == \E i \in 1..Len(text) : text[i] \in Payloads

FileChoices ==
    {<<>>, <<[path |-> "a.ts", content |-> <<>>]>>}
      \cup {<<[path |-> "a.ts", content |-> c]>> : c \in TextsOf("code")}

ReviewRequests ==
    { d \in [readme : {<<>>} \cup TextsOf("intro"),
             files : FileChoices,
             languages : {"{TypeScript:1}"},
             commits : {<<>>} \cup {<<m>> : m \in TextsOf("fix")},
             pullRequests : {<<>>} \cup {<<b>> : b \in TextsOf("body")},
             contributors : {<<"dev: 3">>}] :
        Cardinality({f \in {"readme", "files", "commits", "pullRequests"} :
            CASE f = "readme" -> HasPayload(d.readme)
              [] f = "files" -> d.files # <<>> /\ HasPayload(d.files[1].content)
              [] f = "commits" -> d.commits # <<>> /\ HasPayload(d.commits[1])
              [] OTHER -> d.pullRequests # <<>> /\ HasPayload(d.pullRequests[1])})
          <= MaxInjected }

\* A review is requested for the loaded repository: the prompt is assembled.
BuildPrompt ==
    /\ viewState = "REPO_LOADED"
    /\ step = 0
    /\ prompt' = buildPrompt(data)
    /\ step' = 1
    /\ UNCHANGED <<vaultVars, lastGet, reqs, reviewVars, sidebarVars, data, rankVars,
                   collectVars, repositoryVars, ollamaVars>>

\* The first repository of the session has been loaded: its data is what a
\* review will be asked for.
LoadData(d) ==
    /\ viewState = "IDLE"
    /\ data' = d
    /\ prompt' = <<>>
    /\ step' = 0
    /\ viewState' = "REPO_LOADED"
    /\ repoInfo' = RepoLoaded
    /\ UNCHANGED <<vaultVars, lastGet, reqs, gen, reviewMarkdown, isReviewing,
                   usageMetadata, aiAnalysis, sidebarVars, rankVars, collectVars, ollamaVars>>

InitPrompt ==
    /\ VaultConstructed({NoItem}, {<<>>}, {<<>>})
    /\ FetchAtRest
    /\ ReviewAtRest
    /\ SidebarAtRest
    /\ PromptAtRest
    /\ RankAtRest
    /\ CollectAtRest
    /\ RepositoryAtRest
    /\ OllamaAtRest

NextPrompt ==
    \/ BuildPrompt
    \/ \E d \in ReviewRequests : LoadData(d)

SpecPrompt == InitPrompt /\ [][NextPrompt]_vars

\* One non-recursive pass over the template: every placeholder token of the
\* template becomes its own evidence block, taken literally.
RECURSIVE SinglePass(_, _)
SinglePass(text, ctx) ==
    IF text = <<>> THEN <<>>
    ELSE LET i == indexOf(Placeholders, Head(text), 1) IN
         (IF i = 0 THEN <<Head(text)>> ELSE ctx[i]) \o SinglePass(Tail(text), ctx)

\* C4: the assembled prompt is the template with each of the seven
\* placeholders replaced once by its own evidence block, and dollar syntax inside
\* an evidence value stays literal text.
C4_ContentSafeSubstitution ==
    step = 1 => prompt = SinglePass(promptTemplate, Contexts(data))

----------------------------------------------------------------------------
(* The Sidebar: extraction of the fenced JSON block from the streamed text *)

\* Texts are sequences of tokens: "F" is a fence (three backticks), "WS" a
\* run of whitespace, "SCa" "SCb" the two halves of a JSON body that holds
\* both scores and commitSummaries, "OTHER" a JSON body that holds neither.
Narrative1 == <<"Hello", "WS">>
Narrative2 == <<"WS", "World">>
ValidBlock == <<"F", "json", "WS", "{", "SCa", "SCb", "}", "WS", "F">>
NoKeysBlock == <<"F", "json", "WS", "{", "OTHER", "}", "WS", "F">>
BadBlock == <<"F", "json", "WS", "{", "SCa", "}", "WS", "F">>
OpenBlock == <<"F", "json", "WS", "{", "SCa">>

Segments == {Narrative1, Narrative2, ValidBlock, NoKeysBlock, BadBlock, OpenBlock}

\* What the provider may write in one run: up to MaxSegments segments.
RECURSIVE OutputsOf(_)
OutputsOf(n) ==
    IF n = 0 THEN {<<>>}
    ELSE LET shorter == OutputsOf(n - 1) IN
         shorter \cup {t \o seg : t \in shorter, seg \in Segments}

Outputs == OutputsOf(MaxSegments)

\* \s* from index i: the index of the first token that is not whitespace.
RECURSIVE skipWs(_, _)
skipWs(text, i) ==
    IF i <= Len(text) /\ text[i] = "WS" THEN skipWs(text, i + 1) ELSE i

TokenAt(text, i) == IF i >= 1 /\ i <= Len(text) THEN text[i] ELSE "(end)"

\* (\{[\s\S]*?\})\s*``` with the brace at index j: the least index k of a
\* closing brace that whitespace and a fence follow, 0 when there is none.
RECURSIVE lazyGroupEnd(_, _)
lazyGroupEnd(text, k) ==
    IF k > Len(text) THEN 0
    ELSE IF text[k] = "}" /\ TokenAt(text, skipWs(text, k + 1)) = "F" THEN k
    ELSE lazyGroupEnd(text, k + 1)

\* The regular expression tried at index i.
matchAt(text, i) ==
    LET j == skipWs(text, i + 2)
        k == IF TokenAt(text, j) = "{" THEN lazyGroupEnd(text, j + 1) ELSE 0
    IN IF TokenAt(text, i) = "F" /\ TokenAt(text, i + 1) = "json" /\ k # 0
       THEN [found |-> TRUE, start |-> i, open |-> j, close |-> k,
             end |-> skipWs(text, k + 1)]
       ELSE [found |-> FALSE, start |-> 0, open |-> 0, close |-> 0, end |-> 0]

\* jsonRegex.exec(markdown) with lastIndex = i - 1: the leftmost match.
RECURSIVE exec(_, _)
exec(text, i) ==
    IF i > Len(text) THEN matchAt(text, Len(text) + 1)
    ELSE IF matchAt(text, i).found THEN matchAt(text, i)
    ELSE exec(text, i + 1)

IsWs(tok) == tok = "WS"
NotWs(tok) == tok # "WS"

\* JSON.parse(match[1]): the value parsed, Null when JSON.parse throws.
JSONparse(group) ==
    LET inner == SelectSeq(group, NotWs) IN
    IF inner \in {<<"{", "}">>, <<"{", "OTHER", "}">>, <<"{", "SCa", "SCb", "}">>}
    THEN inner ELSE Null

\* A test that accepts every parsed object.
HasAnyKeys(parsed) == parsed # Null

\* parsed.scores && parsed.commitSummaries
HasScoresAndSummaries(parsed) == parsed = <<"{", "SCa", "SCb", "}">>

\* The first index at which pat occurs in text, 0 when it does not.
RECURSIVE indexOfText(_, _, _)
indexOfText(text, pat, i) ==
    IF i + Len(pat) - 1 > Len(text) THEN 0
    ELSE IF SubSeq(text, i, i + Len(pat) - 1) = pat THEN i
    ELSE indexOfText(text, pat, i + 1)

\* text.replace(pat, ''): the first occurrence removed.
removeFirst(text, pat) ==
    LET i == indexOfText(text, pat, 1) IN
    IF i = 0 THEN text
    ELSE SubSeq(text, 1, i - 1) \o SubSeq(text, i + Len(pat), Len(text))

RECURSIVE trimStart(_)
trimStart(text) ==
    IF text # <<>> /\ IsWs(Head(text)) THEN trimStart(Tail(text)) ELSE text

trim(text) == Reverse(trimStart(Reverse(trimStart(text))))

\* The while loop of the extraction effect from lastIndex = i - 1 on; closure
\* is the localResult of the render the effect belongs to.
RECURSIVE extractLoop(_, _, _, _, _)
extractLoop(markdown, i, strippedMarkdown, emitted, closure) ==
    LET match == exec(markdown, i) IN
    IF ~match.found
    THEN [cleanMarkdown |-> trim(strippedMarkdown), emitted |-> emitted]
    ELSE LET parsed == JSONparse(SubSeq(markdown, match.open, match.close))
             whole == SubSeq(markdown, match.start, match.end)
         IN IF parsed = Null
            THEN extractLoop(markdown, match.end + 1, strippedMarkdown, emitted, closure)
            ELSE extractLoop(markdown, match.end + 1,
                             removeFirst(strippedMarkdown, whole),
                             IF HasScoresAndSummaries(parsed) /\ closure = Null
                             THEN Append(emitted, parsed) ELSE emitted,
                             closure)

\* One run of the extraction effect.
extractEffect(markdown, closure) == extractLoop(markdown, 1, markdown, <<>>, closure)

\* handleReview begins a run; the Sidebar renders the emptied markdown and,
\* isGenerating being true, resets localResult.
ReviewStart(output) ==
    /\ ~isReviewing
    /\ viewState = "REPO_LOADED"
    /\ pending' = output
    /\ reviewMarkdown' = <<>>
    /\ isReviewing' = TRUE
    /\ viewState' = "ANALYZING"
    /\ usageMetadata' = Null
    /\ cleanMarkdown' = extractEffect(<<>>, localResult).cleanMarkdown
    /\ localResult' = Null
    /\ emitCount' = 0
    /\ UNCHANGED <<vaultVars, lastGet, reqs, gen, aiAnalysis, promptVars, rankVars, collectVars, repositoryVars, ollamaVars>>

\* A text chunk of n tokens arrives: handleReview appends it, the Sidebar
\* renders and its effect runs; the effect runs again for the localResult it
\* set, then changing nothing.
ReviewChunk(n) ==
    /\ isReviewing
    /\ n \in 1..Len(pending)
    /\ reviewMarkdown' = reviewMarkdown \o SubSeq(pending, 1, n)
    /\ pending' = SubSeq(pending, n + 1, Len(pending))
    /\ LET r == extractEffect(reviewMarkdown', localResult) IN
       /\ cleanMarkdown' = r.cleanMarkdown
       /\ emitCount' = emitCount + Len(r.emitted)
       /\ localResult' = IF r.emitted = <<>> THEN localResult
                         ELSE r.emitted[Len(r.emitted)]
       /\ aiAnalysis' = IF r.emitted = <<>> THEN aiAnalysis
                        ELSE r.emitted[Len(r.emitted)]
    /\ UNCHANGED <<vaultVars, lastGet, reqs, gen, isReviewing, viewState,
                   usageMetadata, promptVars, rankVars, collectVars, repositoryVars, ollamaVars>>

\* The stream is exhausted: the finally block of handleReview.
ReviewEnd ==
    /\ isReviewing
    /\ pending = <<>>
    /\ isReviewing' = FALSE
    /\ viewState' = "REPO_LOADED"
    /\ UNCHANGED <<vaultVars, lastGet, reqs, gen, reviewMarkdown, usageMetadata,
                   aiAnalysis, sidebarVars, promptVars, rankVars, collectVars, repositoryVars, ollamaVars>>

InitDemux ==
    /\ VaultConstructed({NoItem}, {<<>>}, {<<>>})
    /\ FetchAtRest
    /\ gen = IdleGen
    /\ reviewMarkdown = <<>>
    /\ isReviewing = FALSE
    /\ viewState = "REPO_LOADED"
    /\ usageMetadata = Null
    /\ aiAnalysis = Null
    /\ SidebarAtRest
    /\ PromptAtRest
    /\ RankAtRest
    /\ CollectAtRest
    /\ RepositoryAtRest
    /\ OllamaAtRest

MaxChunkLen == 2 * Len(ValidBlock)

NextDemux ==
    \/ \E output \in Outputs : ReviewStart(output)
    \/ \E n \in 1..MaxChunkLen : ReviewChunk(n)
    \/ ReviewEnd

SpecDemux == InitDemux /\ [][NextDemux]_vars

\* C1: the narrative text holds no opening fence of a JSON block: a region
\* that is still open, or whose interior does not parse, is not forwarded.
C1_NoOpenFenceInNarrative ==
    \A i \in 1..Len(cleanMarkdown) :
        ~(cleanMarkdown[i] = "F" /\ TokenAt(cleanMarkdown, i + 1) = "json")

\* C2: within one review run onAnalysisComplete is called at most once.
C2_AtMostOneEmission == emitCount <= 1

----------------------------------------------------------------------------
(* The ranking step of fetchFileContents (services/githubService) *)

\* Strings are sequences of characters.
LowerCase == <<"a","b","c","d","e","f","g","h","i","j","k","l","m","n","o","p","q","r","s","t","u","v","w","x","y","z">>
UpperCase == <<"A","B","C","D","E","F","G","H","I","J","K","L","M","N","O","P","Q","R","S","T","U","V","W","X","Y","Z">>

\* The position of a character in a sequence that holds it.
PositionIn(chars, ch) == CHOOSE i \in 1..Len(chars) : chars[i] = ch

IsUpper(ch) == \E i \in 1..Len(UpperCase) : UpperCase[i] = ch

\* String.prototype.toLowerCase
toLowerCase(text) ==
    [i \in 1..Len(text) |->
        IF IsUpper(text[i]) THEN LowerCase[PositionIn(UpperCase, text[i])] ELSE text[i]]

\* String.prototype.includes, and RegExp.test for a pattern that is a literal
includesText(text, word) == indexOfText(text, word, 1) # 0

\* RegExp.test for an alternation of literals
includesAny(text, words) == \E word \in words : includesText(text, word)

startsWith(text, word) ==
    Len(word) <= Len(text) /\ SubSeq(text, 1, Len(word)) = word

endsWith(text, word) ==
    Len(word) <= Len(text) /\ SubSeq(text, Len(text) - Len(word) + 1, Len(text)) = word

\* path.split('/')
RECURSIVE split(_)
split(path) ==
    LET i == indexOfText(path, <<"/">>, 1) IN
    IF i = 0 THEN <<path>>
    ELSE <<SubSeq(path, 1, i - 1)>> \o split(SubSeq(path, i + 1, Len(path)))

\* file.path.split('/').pop()
pop(parts) == parts[Len(parts)]

interestingExtensions ==
    {<<".","t","s">>,
     <<".","t","s","x">>,
     <<".","j","s">>,
     <<".","j","s","x">>,
     <<".","p","y">>,
     <<".","g","o">>,
     <<".","r","s">>,
     <<".","j","a","v","a">>,
     <<".","k","t">>,
     <<".","s","w","i","f","t">>,
     <<".","c">>,
     <<".","c","p","p">>,
     <<".","h">>,
     <<".","h","p","p">>,
     <<".","c","s">>,
     <<".","r","b">>,
     <<".","p","h","p">>,
     <<".","v","u","e">>,
     <<".","s","v","e","l","t","e">>,
     <<".","c","s","s">>,
     <<".","s","c","s","s">>,
     <<".","h","t","m","l">>,
     <<".","j","s","o","n">>,
     <<".","y","a","m","l">>,
     <<".","y","m","l">>,
     <<".","m","d">>,
     <<".","s","q","l">>,
     <<".","g","r","a","p","h","q","l">>}

LargeFileSize == 100000


\* scoreFile: the sum of the points of the rules a file matches.
scoreFile(file) ==
    LET path == toLowerCase(file.path)
        fileName == toLowerCase(pop(split(file.path)))
        depth == Len(split(path))
        Points(cond, n) == IF cond THEN n ELSE 0
    IN
       \* entry points: /^(main|index|app|server|start|boot|init|program|entry)\./
       Points(\E w \in {<<"m","a","i","n">>,
                <<"i","n","d","e","x">>,
                <<"a","p","p">>,
                <<"s","e","r","v","e","r">>,
                <<"s","t","a","r","t">>,
                <<"b","o","o","t">>,
                <<"i","n","i","t">>,
                <<"p","r","o","g","r","a","m">>,
                <<"e","n","t","r","y">>} : startsWith(fileName, w \o <<".">>), 10)
       \* /^__main__|__init__|bootstrap/
     + Points(startsWith(fileName, <<"_","_","m","a","i","n","_","_">>) \/ includesAny(fileName, {<<"_","_","i","n","i","t","_","_">>,
                <<"b","o","o","t","s","t","r","a","p">>}), 10)
       \* /config|settings|environment|constants|\.config\.|\.env/
     + Points(includesAny(path, {<<"c","o","n","f","i","g">>,
                <<"s","e","t","t","i","n","g","s">>,
                <<"e","n","v","i","r","o","n","m","e","n","t">>,
                <<"c","o","n","s","t","a","n","t","s">>,
                <<".","c","o","n","f","i","g",".">>,
                <<".","e","n","v">>}), 8)
       \* package.json, tsconfig.json, webpack.config.js, vite.config.ts
     + Points(fileName \in {<<"p","a","c","k","a","g","e",".","j","s","o","n">>,
                <<"t","s","c","o","n","f","i","g",".","j","s","o","n">>,
                <<"w","e","b","p","a","c","k",".","c","o","n","f","i","g",".","j","s">>,
                <<"v","i","t","e",".","c","o","n","f","i","g",".","t","s">>}, 9)
       \* endsWith .config.js, .config.ts, rc.js
     + Points(\E w \in {<<".","c","o","n","f","i","g",".","j","s">>,
                <<".","c","o","n","f","i","g",".","t","s">>,
                <<"r","c",".","j","s">>} : endsWith(fileName, w), 8)
       \* /route|router|routing|endpoint/
     + Points(includesAny(path, {<<"r","o","u","t","e">>,
                <<"r","o","u","t","e","r">>,
                <<"r","o","u","t","i","n","g">>,
                <<"e","n","d","p","o","i","n","t">>}), 8)
       \* /api|rest|graphql|rpc|grpc/
     + Points(includesAny(path, {<<"a","p","i">>,
                <<"r","e","s","t">>,
                <<"g","r","a","p","h","q","l">>,
                <<"r","p","c">>,
                <<"g","r","p","c">>}), 7)
       \* /controller|handler|resolver/
     + Points(includesAny(path, {<<"c","o","n","t","r","o","l","l","e","r">>,
                <<"h","a","n","d","l","e","r">>,
                <<"r","e","s","o","l","v","e","r">>}), 7)
       \* /model|schema|entity|domain|dto|dao|repository|orm/
     + Points(includesAny(path, {<<"m","o","d","e","l">>,
                <<"s","c","h","e","m","a">>,
                <<"e","n","t","i","t","y">>,
                <<"d","o","m","a","i","n">>,
                <<"d","t","o">>,
                <<"d","a","o">>,
                <<"r","e","p","o","s","i","t","o","r","y">>,
                <<"o","r","m">>}), 7)
       \* /database|db|migration|seed/
     + Points(includesAny(path, {<<"d","a","t","a","b","a","s","e">>,
                <<"d","b">>,
                <<"m","i","g","r","a","t","i","o","n">>,
                <<"s","e","e","d">>}), 6)
       \* /service|business|logic|manager|provider|use-?case|interactor/
     + Points(includesAny(path, {<<"s","e","r","v","i","c","e">>,
                <<"b","u","s","i","n","e","s","s">>,
                <<"l","o","g","i","c">>,
                <<"m","a","n","a","g","e","r">>,
                <<"p","r","o","v","i","d","e","r">>,
                <<"u","s","e","c","a","s","e">>,
                <<"u","s","e","-","c","a","s","e">>,
                <<"i","n","t","e","r","a","c","t","o","r">>}), 7)
       \* /middleware|interceptor|filter|guard|decorator|plugin/
     + Points(includesAny(path, {<<"m","i","d","d","l","e","w","a","r","e">>,
                <<"i","n","t","e","r","c","e","p","t","o","r">>,
                <<"f","i","l","t","e","r">>,
                <<"g","u","a","r","d">>,
                <<"d","e","c","o","r","a","t","o","r">>,
                <<"p","l","u","g","i","n">>}), 6)
       \* /auth|security|permission|role|access/
     + Points(includesAny(path, {<<"a","u","t","h">>,
                <<"s","e","c","u","r","i","t","y">>,
                <<"p","e","r","m","i","s","s","i","o","n">>,
                <<"r","o","l","e">>,
                <<"a","c","c","e","s","s">>}), 6)
       \* /util|helper|common|shared|lib|core|tool/
     + Points(includesAny(path, {<<"u","t","i","l">>,
                <<"h","e","l","p","e","r">>,
                <<"c","o","m","m","o","n">>,
                <<"s","h","a","r","e","d">>,
                <<"l","i","b">>,
                <<"c","o","r","e">>,
                <<"t","o","o","l">>}), 5)
       \* /hook|composable/
     + Points(includesAny(path, {<<"h","o","o","k">>,
                <<"c","o","m","p","o","s","a","b","l","e">>}), 5)
       \* UI components
     + Points((\E w \in {<<".","t","s","x">>,
                <<".","j","s","x">>,
                <<".","v","u","e">>,
                <<".","s","v","e","l","t","e">>} : endsWith(path, w)) /\ includesAny(path, {<<"c","o","m","p","o","n","e","n","t">>,
                <<"w","i","d","g","e","t">>,
                <<"v","i","e","w">>,
                <<"p","a","g","e">>,
                <<"s","c","r","e","e","n">>,
                <<"l","a","y","o","u","t">>,
                <<"t","e","m","p","l","a","t","e">>}), 5)
       \* root level
     + Points(depth = 1, 7)
       \* one level deep
     + Points(depth = 2, 4)
       \* /^(src|app|lib|core|source|packages|modules)\//
     + Points(\E w \in {<<"s","r","c">>,
                <<"a","p","p">>,
                <<"l","i","b">>,
                <<"c","o","r","e">>,
                <<"s","o","u","r","c","e">>,
                <<"p","a","c","k","a","g","e","s">>,
                <<"m","o","d","u","l","e","s">>} : startsWith(path, w \o <<"/">>), 4)
       \* backend/, frontend/, server/, client/
     + Points(\E w \in {<<"b","a","c","k","e","n","d","/">>,
                <<"f","r","o","n","t","e","n","d","/">>,
                <<"s","e","r","v","e","r","/">>,
                <<"c","l","i","e","n","t","/">>} : startsWith(path, w), 3)
       \* readme
     + Points(fileName \in {<<"r","e","a","d","m","e",".","m","d">>,
                <<"r","e","a","d","m","e">>}, 6)
       \* docs/ and .md
     + Points(includesText(path, <<"d","o","c","s","/">>) /\ endsWith(fileName, <<".","m","d">>), 3)
       \* /test|spec|__tests__|\.test\.|\.spec\.|testing/
     + Points(includesAny(path, {<<"t","e","s","t">>,
                <<"s","p","e","c">>,
                <<"_","_","t","e","s","t","s","_","_">>,
                <<".","t","e","s","t",".">>,
                <<".","s","p","e","c",".">>,
                <<"t","e","s","t","i","n","g">>}), -5)
       \* /mock|fixture|stub|fake/
     + Points(includesAny(path, {<<"m","o","c","k">>,
                <<"f","i","x","t","u","r","e">>,
                <<"s","t","u","b">>,
                <<"f","a","k","e">>}), -4)
       \* /dist\/|build\/|out\/|target\/|\.min\.|\.bundle\.|compiled|generated/
     + Points(includesAny(path, {<<"d","i","s","t","/">>,
                <<"b","u","i","l","d","/">>,
                <<"o","u","t","/">>,
                <<"t","a","r","g","e","t","/">>,
                <<".","m","i","n",".">>,
                <<".","b","u","n","d","l","e",".">>,
                <<"c","o","m","p","i","l","e","d">>,
                <<"g","e","n","e","r","a","t","e","d">>}), -10)
       \* /node_modules|vendor|third[_-]?party|external/
     + Points(includesAny(path, {<<"n","o","d","e","_","m","o","d","u","l","e","s">>,
                <<"v","e","n","d","o","r">>,
                <<"t","h","i","r","d","p","a","r","t","y">>,
                <<"t","h","i","r","d","_","p","a","r","t","y">>,
                <<"t","h","i","r","d","-","p","a","r","t","y">>,
                <<"e","x","t","e","r","n","a","l">>}), -15)
       \* /lock\.json|lock\.yaml|-lock\.|\.lock$|cache|\.cache/
     + Points(includesAny(path, {<<"l","o","c","k",".","j","s","o","n">>,
                <<"l","o","c","k",".","y","a","m","l">>,
                <<"-","l","o","c","k",".">>,
                <<"c","a","c","h","e">>,
                <<".","c","a","c","h","e">>}) \/ endsWith(path, <<".","l","o","c","k">>), -10)
       \* file.size && file.size > 100000 (size 0 stands for no size)
     + Points(file.size > LargeFileSize, -3)
       \* Python
     + Points(endsWith(path, <<".","p","y">>) /\ (includesAny(fileName, {<<"_","_","i","n","i","t","_","_">>,
                <<"_","_","m","a","i","n","_","_">>,
                <<"w","s","g","i">>,
                <<"a","s","g","i">>}) \/ includesText(fileName, <<"m","a","n","a","g","e",".","p","y">>)), 5)
       \* Java/Kotlin: capitalised names tested on the lower-cased fileName
     + Points((endsWith(path, <<".","j","a","v","a">>) \/ endsWith(path, <<".","k","t">>)) /\ includesAny(fileName, {<<"A","p","p","l","i","c","a","t","i","o","n">>,
                <<"M","a","i","n">>,
                <<"C","o","n","f","i","g">>,
                <<"C","o","n","t","r","o","l","l","e","r">>,
                <<"S","e","r","v","i","c","e">>,
                <<"R","e","p","o","s","i","t","o","r","y">>}), 4)
       \* Go
     + Points(fileName = <<"m","a","i","n",".","g","o">> \/ (includesAny(path, {<<"h","a","n","d","l","e","r">>,
                <<"r","o","u","t","e","r">>,
                <<"m","i","d","d","l","e","w","a","r","e">>}) /\ endsWith(path, <<".","g","o">>)), 4)
       \* Rust
     + Points(fileName \in {<<"m","a","i","n",".","r","s">>,
                <<"l","i","b",".","r","s">>,
                <<"m","o","d",".","r","s">>}, 5)


\* The order of the characters of a path under the root collation that
\* localeCompare uses: punctuation, digits, letters (compared first without
\* regard to case).
CollationOrder ==
    <<"_","-",".","/","0","1","2","3","4","5","6","7","8","9","a","b","c","d","e","f","g","h","i","j","k","l","m","n","o","p","q","r","s","t","u","v","w","x","y","z">>

\* Letters in the order that decides between strings equal but for case.
CaseOrder ==
    <<"a","A","b","B","c","C","d","D","e","E","f","F","g","G","h","H","i","I","j","J","k","K","l","L","m","M","n","N","o","O","p","P","q","Q","r","R","s","S","t","T","u","U","v","V","w","W","x","X","y","Y","z","Z">>

\* -1, 0 or 1 as a precedes, equals or follows b, character by character in
\* the given order; a proper prefix precedes.
RECURSIVE lexCompare(_, _, _)
lexCompare(a, b, order) ==
    IF a = <<>> THEN (IF b = <<>> THEN 0 ELSE -1)
    ELSE IF b = <<>> THEN 1
    ELSE IF Head(a) = Head(b) THEN lexCompare(Tail(a), Tail(b), order)
    ELSE IF PositionIn(order, Head(a)) < PositionIn(order, Head(b)) THEN -1 ELSE 1

\* a.localeCompare(b)
localeCompare(a, b) ==
    LET primary == lexCompare(toLowerCase(a), toLowerCase(b), CollationOrder) IN
    IF primary # 0 THEN primary ELSE lexCompare(a, b, CaseOrder)

\* A comparator that looks at the score only.
comparatorByScore(a, b) == b.score - a.score

\* The comparator of sortedFiles: score descending, then depth ascending,
\* then localeCompare of the paths.
comparator(a, b) ==
    IF b.score # a.score THEN b.score - a.score
    ELSE LET depthA == Len(split(a.file.path))
             depthB == Len(split(b.file.path))
         IN IF depthA # depthB THEN depthA - depthB
            ELSE localeCompare(a.file.path, b.file.path)

\* Array.prototype.sort with the comparator: a stable sort.
RECURSIVE insertSorted(_, _)
insertSorted(sorted, item) ==
    IF sorted = <<>> THEN <<item>>
    ELSE IF comparator(Head(sorted), item) > 0 THEN <<item>> \o sorted
    ELSE <<Head(sorted)>> \o insertSorted(Tail(sorted), item)

RECURSIVE sort(_)
sort(items) ==
    IF items = <<>> THEN <<>>
    ELSE insertSorted(sort(SubSeq(items, 1, Len(items) - 1)), items[Len(items)])

TopFiles == 20

\* A slice that keeps every item.
sliceAll(items, n) == items

\* items.slice(0, n)
slice(items, n) == SubSeq(items, 1, IF Len(items) < n THEN Len(items) ELSE n)

\* interestingExtensions.some(ext => f.path.endsWith(ext))
IsInteresting(f) == \E ext \in interestingExtensions : endsWith(f.path, ext)

\* .map(f => ({ file: f, score: scoreFile(f) }))
RECURSIVE scoreAll(_)
scoreAll(fs) ==
    IF fs = <<>> THEN <<>>
    ELSE <<[file |-> Head(fs), score |-> scoreFile(Head(fs))]>> \o scoreAll(Tail(fs))

\* The chain filter, map, sort, slice, map that yields sortedFiles.
rank(fs) ==
    LET top == slice(sort(scoreAll(SelectSeq(fs, IsInteresting))), TopFiles) IN
    [i \in 1..Len(top) |-> top[i].file]

\* The blobs of a repository tree, in the order of the tree (size 0: no size).
Tree ==
    <<[path |-> <<"B",".","t","s">>, size |-> 500],
      [path |-> <<"M","a","k","e","f","i","l","e">>, size |-> 500],
      [path |-> <<"R","E","A","D","M","E",".","m","d">>, size |-> 500],
      [path |-> <<"a",".","t","s">>, size |-> 500],
      [path |-> <<"d","a","t","a",".","j","s","o","n">>, size |-> 200000],
      [path |-> <<"d","i","s","t","/","m","a","i","n",".","j","s">>, size |-> 500],
      [path |-> <<"d","o","c","s","/","g","u","i","d","e",".","m","d">>, size |-> 500],
      [path |-> <<"i","n","d","e","x",".","t","s">>, size |-> 500],
      [path |-> <<"l","i","b","/","u","1",".","t","s">>, size |-> 500],
      [path |-> <<"l","i","b","/","u","2",".","t","s">>, size |-> 500],
      [path |-> <<"l","i","b","/","u","3",".","t","s">>, size |-> 500],
      [path |-> <<"l","i","b","/","u","4",".","t","s">>, size |-> 500],
      [path |-> <<"l","i","b","/","u","5",".","t","s">>, size |-> 500],
      [path |-> <<"l","i","b","/","u","6",".","t","s">>, size |-> 500],
      [path |-> <<"l","i","b","/","u","7",".","t","s">>, size |-> 500],
      [path |-> <<"l","o","g","o",".","p","n","g">>, size |-> 500],
      [path |-> <<"n","o","d","e","_","m","o","d","u","l","e","s","/","x","/","i","n","d","e","x",".","j","s">>, size |-> 500],
      [path |-> <<"p","a","c","k","a","g","e","-","l","o","c","k",".","j","s","o","n">>, size |-> 500],
      [path |-> <<"p","a","c","k","a","g","e",".","j","s","o","n">>, size |-> 500],
      [path |-> <<"s","r","c","/","M","a","i","n",".","j","a","v","a">>, size |-> 500],
      [path |-> <<"s","r","c","/","a","p","i","/","r","o","u","t","e","s",".","t","s">>, size |-> 500],
      [path |-> <<"s","r","c","/","a","p","p",".","t","s","x">>, size |-> 500],
      [path |-> <<"s","r","c","/","d","b","/","m","o","d","e","l",".","t","s">>, size |-> 500],
      [path |-> <<"s","r","c","/","h","o","o","k","s","/","u","s","e","_","x",".","t","s">>, size |-> 0],
      [path |-> <<"t","e","s","t","/","a",".","t","e","s","t",".","t","s">>, size |-> 500],
      [path |-> <<"y","a","r","n",".","l","o","c","k">>, size |-> 500]>>

\* Strictly increasing sequences of at most n indices of the tree.
Picks(n) ==
    {s \in UNION {[1..k -> 1..Len(Tree)] : k \in 0..n} :
        \A i \in 1..Len(s), j \in 1..Len(s) : i < j => s[i] < s[j]}

\* The lists fetchFileContents is called with: the tree, the tree reversed,
\* the tree without one blob, and the trees of at most MaxPicked blobs.
FileLists ==
    {Tree, Reverse(Tree)}
      \cup {SubSeq(Tree, 1, i - 1) \o SubSeq(Tree, i + 1, Len(Tree)) : i \in 1..Len(Tree)}
      \cup {[i \in 1..Len(s) |-> Tree[s[i]]] : s \in Picks(MaxPicked)}

\* fetchRepoDetails has the tree of the repository and calls fetchFileContents.
ReceiveTree(list) ==
    /\ rankPc = "none"
    /\ files' = list
    /\ rankPc' = "tree"
    /\ UNCHANGED <<vaultVars, lastGet, reqs, reviewVars, sidebarVars, promptVars,
                   sortedFiles, prevSorted, collectVars, repositoryVars, ollamaVars>>

\* fetchFileContents ranks the list; it does so again when the repository is
\* loaded again.
Rank ==
    /\ rankPc \in {"tree", "ranked"}
    /\ sortedFiles' = rank(files)
    /\ prevSorted' = sortedFiles
    /\ rankPc' = IF rankPc = "tree" THEN "ranked" ELSE "reranked"
    /\ UNCHANGED <<vaultVars, lastGet, reqs, reviewVars, sidebarVars, promptVars, files,
                   collectVars, repositoryVars, ollamaVars>>

InitRank ==
    /\ VaultConstructed({NoItem}, {<<>>}, {<<>>})
    /\ FetchAtRest
    /\ ReviewAtRest
    /\ SidebarAtRest
    /\ PromptAtRest
    /\ RankAtRest
    /\ CollectAtRest
    /\ RepositoryAtRest
    /\ OllamaAtRest

NextRank ==
    \/ \E list \in FileLists : ReceiveTree(list)
    \/ Rank

SpecRank == InitRank /\ [][NextRank]_vars

----------------------------------------------------------------------------
(* fetchRepoDetails, enrichCommitsWithStats and the content fetch of
   fetchFileContents (services/githubService).  A request made through
   fetchWithRetry ends in one of these ways:
     "ok"           a 2xx response whose body is what the endpoint documents
     "status"       a response that is not ok (404, 500, 403 after the retries)
     "network"      fetch rejects, and fetchWithRetry rethrows
     "garbled"      a 2xx response whose body res.json() cannot parse
     "undecodable"  a 2xx response whose base64 content atob or
                    decodeURIComponent rejects (readme and blob requests) *)

TopCommits == 15      \* commits.slice(0, 15)
TreeCap == 300        \* .slice(0, 300)
ContentCap == 8000    \* content.substring(0, 8000)
SnippetCap == 20      \* .slice(0, 20) of the prompt assembly

FaultKinds == {"status", "network", "garbled", "undecodable"}

SecondaryRequests ==
    {"commits", "pulls", "branches", "contributors", "tree", "readme", "languages"}

\* The requests of the Promise.all that are made for a repository.
IssuedFor(isEmpty) ==
    IF isEmpty THEN SecondaryRequests \ {"commits", "contributors", "tree"}
    ELSE SecondaryRequests

\* The sets of at most n elements of D.
RECURSIVE SubsetsUpTo(_, _)
SubsetsUpTo(D, n) ==
    IF n = 0 THEN {{}}
    ELSE LET smaller == SubsetsUpTo(D, n - 1) IN
         smaller \cup {s \cup {x} : s \in smaller, x \in D}

\* The ways the requests D can end when at most n of them do not succeed;
\* only a request for base64 content (in Base64) can be undecodable.
FaultMaps(D, n, Base64) ==
    UNION {{[x \in D |-> IF x \in s THEN k[x] ELSE "ok"] :
                k \in {f \in [s -> FaultKinds] :
                          \A x \in s : f[x] = "undecodable" => x \in Base64}} :
           s \in SubsetsUpTo(D, n)}

FaultsIn(outs) == Cardinality({x \in DOMAIN outs : outs[x] # "ok"})

NoContent == [blob |-> 0, len |-> 0]

\* content.substring(0, n) of a decoded blob
substring(content, n) == [content EXCEPT !.len = IF content.len < n THEN content.len ELSE n]

\* A tree entry as the tree endpoint gives it.
Node(path, type, size, sha) ==
    [path |-> path, type |-> type, size |-> size, sha |-> sha, content |-> NoContent]

\* A small tree: a licence file and its copy under docs (the same blob), a
\* source file of more than 8000 characters, and a directory.
SmallTree ==
    <<Node(<<"L","I","C","E","N","S","E">>, "blob", 300, 1),
      Node(<<"d","o","c","s","/","L","I","C","E","N","S","E",".","m","d">>, "blob", 300, 1),
      Node(<<"i","n","d","e","x",".","t","s">>, "blob", 9000, 2),
      Node(<<"s","r","c">>, "tree", 0, 3)>>

\* The blobs of Tree with their shas: all different, or with the vendored
\* node_modules/x/index.js the same blob as src/db/model.ts.
BlobTree(shared) ==
    [i \in 1..Len(Tree) |->
        Node(Tree[i].path, "blob", Tree[i].size, IF shared /\ i = 17 THEN 10 + 23 ELSE 10 + i)]

\* The lists of at most n entries of a list, in its order.
SubLists(list, n) ==
    {[i \in 1..Len(s) |-> list[s[i]]] :
        s \in {t \in UNION {[1..k -> 1..Len(list)] : k \in 0..n} :
                  \A i \in 1..Len(t), j \in 1..Len(t) : i < j => t[i] < t[j]}}

\* The repositories: one without default branch, small ones with up to
\* MaxCommits commits, and two with more than 20 eligible files.
Repos ==
    {NoRepo}
      \cup {[default_branch |-> TRUE, commits |-> n, tree |-> t] :
                n \in 0..MaxCommits, t \in SubLists(SmallTree, MaxPicked)}
      \cup {[default_branch |-> TRUE, commits |-> 0, tree |-> BlobTree(shared)] :
                shared \in BOOLEAN}

\* fetchRepoDetails is called: it requests the metadata of the repository.
FetchRepoDetails(repo) ==
    /\ collect.pc = "idle"
    /\ collect' = [collect EXCEPT !.pc = "info", !.repo = repo, !.issued = {"info"}]
    /\ UNCHANGED <<vaultVars, lastGet, reqs, reviewVars, sidebarVars, promptVars, rankVars, repositoryVars, ollamaVars>>

\* What fetchWithRetry gives for the metadata request: 0 stands for a rejected
\* fetch, and a 200 response can have a body that is not JSON.
InfoStatuses == {0, 200, 403, 404, 429, 500}

Throw(c, message) == [c EXCEPT !.pc = "threw", !.error = message]

\* The metadata request is over: fetchRepoDetails throws, or issues the
\* requests of the Promise.all (none for commits, contributors and tree when
\* info.default_branch is missing).
InfoAnswered(status, parses) ==
    /\ collect.pc = "info"
    /\ collect' =
         IF status = 0 THEN Throw(collect, "Failed to fetch")
         ELSE IF IsRateLimitStatus(status) THEN Throw(collect, "GitHub API rate limit exceeded")
         ELSE IF status # 200 THEN Throw(collect, "Repository not found or private")
         ELSE IF ~parses THEN Throw(collect, "SyntaxError")
         ELSE [collect EXCEPT !.pc = "secondary",
                              !.issued = @ \cup IssuedFor(~collect.repo.default_branch)]
    /\ UNCHANGED <<vaultVars, lastGet, reqs, reviewVars, sidebarVars, promptVars, rankVars, repositoryVars, ollamaVars>>

\* xRes?.ok ? await xRes.json() : otherwise
JsonOr(c, outs, req, value, otherwise) ==
    IF req \in c.issued /\ outs[req] = "ok" THEN value ELSE otherwise

\* (treeData.tree || []).filter(node => node.type === 'blob').slice(0, 300)
BlobsOf(tree) == slice(SelectSeq(tree, LAMBDA node : node.type = "blob"), TreeCap)

\* The Promise.all is over and the bodies are read: a rejected request rejects
\* the Promise.all, and an unparseable body makes res.json() throw; the body
\* of the readme response is read last (ReturnBundle).
SecondaryAnswered(outs) ==
    /\ collect.pc = "secondary"
    /\ LET issued == collect.issued \ {"info"} IN
       collect' =
         IF \E req \in issued : outs[req] = "network" THEN Throw(collect, "Failed to fetch")
         ELSE IF \E req \in issued \ {"readme"} : outs[req] = "garbled"
              THEN Throw(collect, "SyntaxError")
         ELSE [collect EXCEPT
                 !.pc = "enrich",
                 !.faults = @ + FaultsIn(outs),
                 !.readmeRes = outs["readme"],
                 !.commits = JsonOr(collect, outs, "commits",
                                [i \in 1..collect.repo.commits |-> [sha |-> i, enriched |-> FALSE]],
                                <<>>),
                 !.pullRequests = JsonOr(collect, outs, "pulls", <<"pull">>, <<>>),
                 !.branches = JsonOr(collect, outs, "branches", <<"branch">>, <<>>),
                 !.contributors = JsonOr(collect, outs, "contributors", <<"dev">>, <<>>),
                 !.files = BlobsOf(JsonOr(collect, outs, "tree", collect.repo.tree, <<>>)),
                 !.languages = JsonOr(collect, outs, "languages", "{TypeScript:1}", "{}")]
    /\ UNCHANGED <<vaultVars, lastGet, reqs, reviewVars, sidebarVars, promptVars, rankVars, repositoryVars, ollamaVars>>

\* enrichCommitsWithStats: the first 15 commits are requested one by one; a
\* commit whose request does not succeed is kept as it is.
enrichCommitsWithStats(commits, outs) ==
    LET topCommits == slice(commits, TopCommits)
        remaining == SubSeq(commits, Len(topCommits) + 1, Len(commits))
        enriched == [i \in 1..Len(topCommits) |->
                        IF outs[i] = "ok" THEN [topCommits[i] EXCEPT !.enriched = TRUE]
                        ELSE topCommits[i]]
    IN enriched \o remaining

EnrichCommits(outs) ==
    /\ collect.pc = "enrich"
    /\ collect' = [collect EXCEPT !.pc = "files",
                                  !.faults = @ + FaultsIn(outs),
                                  !.commits = enrichCommitsWithStats(@, outs)]
    /\ UNCHANGED <<vaultVars, lastGet, reqs, reviewVars, sidebarVars, promptVars, rankVars, repositoryVars, ollamaVars>>

\* updatedFiles.findIndex(f => f.sha === sha), 0 for -1
RECURSIVE findIndex(_, _, _)
findIndex(updatedFiles, sha, i) ==
    IF i > Len(updatedFiles) THEN 0
    ELSE IF updatedFiles[i].sha = sha THEN i
    ELSE findIndex(updatedFiles, sha, i + 1)

\* The callbacks of candidates.map: a blob that was fetched and decoded, and
\* is not empty, is stored at the first file of the list that has its sha.
RECURSIVE storeContents(_, _, _, _)
storeContents(updatedFiles, candidates, outs, i) ==
    IF i > Len(candidates) THEN updatedFiles
    ELSE LET file == candidates[i]
             content == [blob |-> file.sha, len |-> file.size]
             index == findIndex(updatedFiles, file.sha, 1)
         IN IF outs[i] = "ok" /\ content.len > 0 /\ index # 0
            THEN storeContents(
                   [updatedFiles EXCEPT ![index].content = substring(content, ContentCap)],
                   candidates, outs, i + 1)
            ELSE storeContents(updatedFiles, candidates, outs, i + 1)

\* fetchFileContents: the list is ranked, then the content of the candidates
\* is requested and stored in a copy of the list.
FetchFileContents ==
    /\ collect.pc = "files"
    /\ \E sortedList \in {rank(collect.files)} :
         \E outs \in FaultMaps(1..Len(sortedList), MaxFaults - collect.faults,
                               1..Len(sortedList)) :
            collect' = [collect EXCEPT
                          !.pc = "readme",
                          !.faults = @ + FaultsIn(outs),
                          !.files = storeContents(@, sortedList, outs, 1)]
    /\ UNCHANGED <<vaultVars, lastGet, reqs, reviewVars, sidebarVars, promptVars, rankVars, repositoryVars, ollamaVars>>

\* The readme is read and the bundle returned: an unparseable body makes
\* readmeRes.json() throw, an undecodable content is logged.
ReturnBundle ==
    /\ collect.pc = "readme"
    /\ collect' =
         IF collect.readmeRes = "garbled" THEN Throw(collect, "SyntaxError")
         ELSE [collect EXCEPT !.pc = "returned",
                              !.readme = IF collect.readmeRes = "ok" THEN "readme" ELSE ""]
    /\ UNCHANGED <<vaultVars, lastGet, reqs, reviewVars, sidebarVars, promptVars, rankVars, repositoryVars, ollamaVars>>

\* data.files.filter(f => f.content).slice(0, 20) of the prompt assembly
significantFiles(fs) == slice(SelectSeq(fs, LAMBDA f : f.content.len > 0), SnippetCap)

InitCollect ==
    /\ VaultConstructed({NoItem}, {<<>>}, {<<>>})
    /\ FetchAtRest
    /\ ReviewAtRest
    /\ SidebarAtRest
    /\ PromptAtRest
    /\ RankAtRest
    /\ CollectAtRest
    /\ RepositoryAtRest
    /\ OllamaAtRest

NextCollect ==
    \/ \E repo \in Repos : FetchRepoDetails(repo)
    \/ \E status \in InfoStatuses, parses \in BOOLEAN : InfoAnswered(status, parses)
    \/ \E outs \in FaultMaps(collect.issued \ {"info"}, MaxFaults, {"readme"}) :
          SecondaryAnswered(outs)
    \/ \E outs \in FaultMaps(1..Len(slice(collect.commits, TopCommits)),
                             MaxFaults - collect.faults, {}) : EnrichCommits(outs)
    \/ FetchFileContents
    \/ ReturnBundle

SpecCollect == InitCollect /\ [][NextCollect]_vars

----------------------------------------------------------------------------
(* SpecReset: review runs of the Dashboard, with the Change button
   (handleReset) pressed at any time and a generator that can throw *)

ErrGeneration == <<"error", "Error encountered during generation.", 0>>

\* Dashboard.handleReview: if (!repository.repoInfo) return; review.handleReview
DashboardHandleReview ==
    /\ repoInfo # Null
    /\ HandleReview

\* handleReview when the generator throws at its first step (buildReviewPrompt
\* is called outside the try of the generator): catch, then finally.
HandleReviewThrows ==
    /\ repoInfo # Null
    /\ ~isReviewing
    /\ viewState = "REPO_LOADED"
    /\ gen' = [IdleGen EXCEPT !.pc = "done"]
    /\ reviewMarkdown' = <<ErrGeneration>>
    /\ usageMetadata' = Null
    /\ isReviewing' = FALSE
    /\ viewState' = "REPO_LOADED"
    /\ UNCHANGED <<vaultVars, lastGet, reqs, aiAnalysis, sidebarVars, promptVars, rankVars,
                   collectVars, repositoryVars, ollamaVars>>

\* Dashboard.handleReset: repository.resetRepo(); review.resetReview()
HandleReset ==
    /\ repoInfo # Null
    /\ repoInfo' = Null
    /\ viewState' = "IDLE"
    /\ aiAnalysis' = Null
    /\ reviewMarkdown' = <<>>
    /\ usageMetadata' = Null
    /\ UNCHANGED <<vaultVars, lastGet, reqs, gen, isReviewing, sidebarVars, promptVars,
                   rankVars, collectVars, ollamaVars>>

\* The steps of a review run.
ReviewStep ==
    \/ DashboardHandleReview
    \/ HandleReviewThrows
    \/ StreamStep

InitReset == InitReview

NextReset ==
    \/ DashboardHandleReview
    \/ HandleReviewThrows
    \/ \E kind \in ChunkKinds : StreamChunk(kind)
    \/ StreamEnd
    \/ \E kind \in ErrorKinds : StreamError(kind)
    \/ HandleReset

SpecReset == InitReset /\ [][NextReset]_vars

----------------------------------------------------------------------------
(* The read loop of generateReviewStreamOllama.  The body of the response is
   a sequence of tokens: a JSON line is "{", its fields, "}", and "[nl]" is
   the newline after it.  A network read delivers the next tokens of the
   body, however many. *)

Newline == "[nl]"

FieldTokens ==
    {"response:a", "response:b", "response:", "done:false", "done:true",
     "prompt_eval_count:3", "eval_count:5"}

\* A line the daemon sends while it generates, and its last line.
TextLine(field) == <<"{", field, "done:false", "}", Newline>>
FinalLine == <<"{", "response:", "done:true", "prompt_eval_count:3", "eval_count:5", "}", Newline>>

\* The bodies of at most n generated lines, each followed by the last line.
RECURSIVE Bodies(_)
Bodies(n) ==
    IF n = 0 THEN {FinalLine}
    ELSE Bodies(n - 1)
           \cup {TextLine(f) \o body : f \in {"response:a", "response:b"},
                                       body \in {b \in Bodies(n - 1) : Len(b) = 5 * (n - 1) + Len(FinalLine)}}

\* chunk.split("[nl]"): the pieces between the newlines.
RECURSIVE splitLines(_, _)
splitLines(chunk, piece) ==
    IF chunk = <<>> THEN <<piece>>
    ELSE IF Head(chunk) = Newline THEN <<piece>> \o splitLines(Tail(chunk), <<>>)
    ELSE splitLines(Tail(chunk), Append(piece, Head(chunk)))

\* JSON.parse(line) succeeds for a whole object: "{", fields, "}".
Parses(line) ==
    /\ Len(line) >= 2
    /\ line[1] = "{"
    /\ line[Len(line)] = "}"
    /\ \A i \in 2..(Len(line) - 1) : line[i] \in FieldTokens

HasField(line, field) == \E i \in 1..Len(line) : line[i] = field

\* json.response of a parsed line ("" when it is empty)
ResponseOf(line) ==
    IF HasField(line, "response:a") THEN "a"
    ELSE IF HasField(line, "response:b") THEN "b"
    ELSE ""

\* The body of the for loop over the lines of one chunk: the state of the
\* generator after the lines from index i on.
RECURSIVE forLines(_, _, _)
forLines(o, lines, i) ==
    IF i > Len(lines) THEN o
    ELSE LET line == lines[i] IN
         IF ~Parses(line) THEN forLines(o, lines, i + 1)
         ELSE LET promptTokens == IF HasField(line, "prompt_eval_count:3") THEN 3
                                  ELSE o.promptTokens
                  totalTokens == IF HasField(line, "eval_count:5") THEN promptTokens + 5
                                 ELSE o.totalTokens
                  texts == IF ResponseOf(line) # "" THEN Append(o.texts, ResponseOf(line))
                           ELSE o.texts
                  usage == IF HasField(line, "done:true") /\ totalTokens > 0
                           THEN <<promptTokens, IF HasField(line, "eval_count:5") THEN 5 ELSE 0,
                                  totalTokens>>
                           ELSE o.usage
              IN forLines([o EXCEPT !.promptTokens = promptTokens,
                                    !.totalTokens = totalTokens,
                                    !.texts = texts, !.usage = usage],
                          lines, i + 1)

\* One turn of the while loop: the chunk is split at the newlines, blank
\* pieces are dropped, and each piece is parsed on its own.
processChunk(o, chunk) ==
    forLines(o, SelectSeq(splitLines(chunk, <<>>), LAMBDA line : line # <<>>), 1)

\* generateReviewStreamOllama is called and the daemon answers 200.
StartOllama(body) ==
    /\ ollama.pc = "idle"
    /\ ollama' = [IdleOllama EXCEPT !.pc = "reading", !.sent = body, !.rest = body]
    /\ UNCHANGED <<vaultVars, lastGet, reqs, reviewVars, sidebarVars, promptVars, rankVars,
                   collectVars, repositoryVars>>

\* reader.read() resolves with the next n tokens of the body.
ReadChunk(n) ==
    /\ ollama.pc = "reading"
    /\ n \in 1..Len(ollama.rest)
    /\ ollama' = [processChunk(ollama, SubSeq(ollama.rest, 1, n)) EXCEPT
                     !.rest = SubSeq(ollama.rest, n + 1, Len(ollama.rest))]
    /\ UNCHANGED <<vaultVars, lastGet, reqs, reviewVars, sidebarVars, promptVars, rankVars,
                   collectVars, repositoryVars>>

\* reader.read() resolves with done: the loop is left.
ReadDone ==
    /\ ollama.pc = "reading"
    /\ ollama.rest = <<>>
    /\ ollama' = [ollama EXCEPT !.pc = "done"]
    /\ UNCHANGED <<vaultVars, lastGet, reqs, reviewVars, sidebarVars, promptVars, rankVars,
                   collectVars, repositoryVars>>

InitOllama ==
    /\ VaultConstructed({NoItem}, {<<>>}, {<<>>})
    /\ FetchAtRest
    /\ ReviewAtRest
    /\ SidebarAtRest
    /\ PromptAtRest
    /\ RankAtRest
    /\ CollectAtRest
    /\ RepositoryAtRest
    /\ OllamaAtRest

NextOllama ==
    \/ \E body \in Bodies(MaxLines) : StartOllama(body)
    \/ \E n \in 1..MaxRead : ReadChunk(n)
    \/ ReadDone

SpecOllama == InitOllama /\ [][NextOllama]_vars

----------------------------------------------------------------------------
(* Claims about fetchWithRetry and the vault *)

\* The mocked service of the claim: 429, 429, then 200.
TwoRejectsThenOk == [rejects |-> 2, rejectStatus |-> 429, final |-> 200, throws |-> FALSE]

\* The 403/429 answers among the answers a finished call has received.
RejectedAnswers(q) ==
    Cardinality({n \in 1..(q.attempt + 1) : StatusAt(q.script, n) \in {403, 429}})

\* Slot r takes a step of fetchWithRetry in which its awaited fetch resolves
\* to a response.
Settles(r) ==
    /\ reqs[r].pc = "awaiting"
    /\ reqs'[r] # reqs[r]
    /\ reqs'[r].script = reqs[r].script
    /\ ~reqs'[r].threw
    /\ reqs'[r].attempt >= reqs[r].attempt
    /\ ~(reqs'[r].pc = "awaiting" /\ reqs'[r].attempt = 0)

\* Slot r retries: the step sends one more HTTP attempt of the same call.
Retries(r) ==
    /\ Settles(r)
    /\ reqs'[r].pc = "awaiting"
    /\ reqs'[r].attempt = reqs[r].attempt + 1

\* Slot r returns the response it received.
Returns(r, status) ==
    /\ reqs'[r].pc = "done"
    /\ reqs'[r].result = status
    /\ reqs'[r].attempt = reqs[r].attempt

\* The first vault entry that holds the token.
FirstHolder(ks, token) ==
    CHOOSE i \in 1..Len(ks) :
        ks[i].token = token /\ \A j \in 1..(i - 1) : ks[j].token # token

\* The rate-limit timestamps of the vault, entry by entry.
Stamps(ks) == [i \in 1..Len(ks) |-> ks[i].isRateLimitedUntil]

C5_Outcome ==
    \A r \in Slots :
        LET q == reqs[r] IN
        (q.pc = "done" /\ q.script = TwoRejectsThenOk) =>
            IF q.attempt = 2
            THEN q.result = 200 /\ q.marks = 2
            ELSE q.result = 429 /\ q.token = Null /\ q.marks = q.attempt

\* C5 (amended), step part: a 403/429 answer to an attempt that carried a
\* credential marks the first vault entry holding that secret with now + 60 s
\* and, unless it answers the sixth attempt, is followed by a retry; a
\* 403/429 answer to an attempt without credential, or to the sixth attempt,
\* is returned as it is; any other status is returned as it is and no
\* timestamp of the vault changes.
C5_Step(r) ==
    LET q == reqs[r]
        status == StatusAt(q.script, q.attempt + 1)
    IN Settles(r) =>
        IF status \in {403, 429} /\ q.token # Null
        THEN /\ reqs'[r].marks = q.marks + 1
             /\ (\E i \in 1..Len(keys) : keys[i].token = q.token) =>
                   (keys'[FirstHolder(keys, q.token)].isRateLimitedUntil
                       = now + RateLimitMs)
             /\ IF q.attempt < MaxRetries THEN Retries(r) ELSE Returns(r, status)
        ELSE /\ Returns(r, status)
             /\ reqs'[r].marks = q.marks
             /\ Stamps(keys') = Stamps(keys)

C6_Original == \A r \in Slots : HttpAttempts(reqs[r]) <= MaxRetries

\* C6 (amended): one call makes at most 6 HTTP attempts, the first attempt
\* and at most 5 retries.
C6_AtMostSixAttempts == \A r \in Slots : HttpAttempts(reqs[r]) <= MaxRetries + 1

\* C6 witness: a call is at its sixth HTTP attempt.
C6_Witness == \E r \in Slots : HttpAttempts(reqs[r]) = MaxRetries + 1

\* C7: a retry after a 403/429 never carries the secret that was just rejected.
C7_RetryRotates ==
    [][\A r \in Slots : Retries(r) => reqs'[r].token # reqs[r].token]_vars

\* C10 (as stated): while a request holds a credential and awaits its
\* response, no other request runs getValidKey (which reads the timestamp of
\* every repo-host credential) or markRateLimited on that credential.
C10_Original ==
    [][\A r \in Slots, o \in Slots :
         (/\ r # o
          /\ reqs[r].pc = "awaiting"
          /\ reqs[r].token # Null
          /\ reqs'[r] = reqs[r])
         => ~(reqs'[o].pc = "awaiting" /\ reqs'[o] # reqs[o])]_vars

\* C10 (amended): a request obtains its credential and sends the fetch in one
\* unsuspended span and, after the await, marks and asks again in another;
\* in between other requests may read and mark the same credential.  Every
\* change of a credential's timestamp is the mark of a request that was
\* awaiting a response with that credential's secret and was answered 403/429,
\* it sets the timestamp of the first entry holding the secret to now + 60 s,
\* and it never moves a timestamp backwards.
C10_MarksOwnCredential ==
    [][\A i \in 1..Len(keys) :
         (i <= Len(keys') /\ keys'[i].isRateLimitedUntil # keys[i].isRateLimitedUntil)
         => /\ keys'[i].isRateLimitedUntil = now + RateLimitMs
            /\ keys'[i].isRateLimitedUntil >= keys[i].isRateLimitedUntil
            /\ \E r \in Slots :
                 /\ Settles(r)
                 /\ reqs[r].token = keys[i].token
                 /\ i = FirstHolder(keys, reqs[r].token)
                 /\ StatusAt(reqs[r].script, reqs[r].attempt + 1) \in {403, 429}]_vars

\* C10 witness: two requests await their responses with the same secret and
\* the credential holding it has been marked meanwhile.
C10_Witness ==
    \E r \in Slots, o \in Slots :
        /\ r # o
        /\ reqs[r].pc = "awaiting" /\ reqs[o].pc = "awaiting"
        /\ reqs[r].token # Null /\ reqs[r].token = reqs[o].token
        /\ \E i \in 1..Len(keys) :
             keys[i].token = reqs[r].token /\ keys[i].isRateLimitedUntil > now

----------------------------------------------------------------------------
(* Claims about the vault *)

\* The first credential, in vault order, of the class that is not rate-limited
\* at time t; Null when there is none.
FirstUsable(ks, type, t) ==
    LET ok == {i \in 1..Len(ks) :
                 /\ ks[i].type = type
                 /\ (ks[i].isRateLimitedUntil = 0 \/ ks[i].isRateLimitedUntil < t)}
    IN IF ok = {} THEN Null
       ELSE ks[CHOOSE i \in ok : \A j \in ok : i <= j].token

\* The credentials of a class, in vault order.
OfClass(ks, type) == SelectSeq(ks, LAMBDA k : k.type = type)

Limited(k, t) == k.isRateLimitedUntil # 0 /\ k.isRateLimitedUntil >= t

\* C8 (as stated): markRateLimited sets the marked credential's timestamp to
\* now + 60 s, and getValidKey does not return a secret while a credential
\* holding it is marked and that time has not passed.
C8_Original ==
    [][/\ (MarkRateLimited /\ \E i \in 1..Len(keys) : keys[i].token = lastGet.result)
            => keys'[FirstHolder(keys, lastGet.result)].isRateLimitedUntil
                    = now + RateLimitMs
       /\ (lastGet'.seq # lastGet.seq /\ lastGet'.result # Null) =>
            \A i \in 1..Len(keys') :
                keys'[i].token = lastGet'.result => ~Limited(keys'[i], now')]_vars

----------------------------------------------------------------------------
(* Claims about generateReviewStream *)

\* The vault as getValidKey sees it: the environment keys are loaded first.
VaultAtCall == loadEnvKeys(keys, envLoaded, envGh, envGemini)

\* No key of the LLM class is unmarked or has an expired mark.
NoUsableGemini(ks, t) ==
    ~\E i \in 1..Len(ks) :
        /\ ks[i].type = "gemini"
        /\ (ks[i].isRateLimitedUntil = 0 \/ ks[i].isRateLimitedUntil < t)

\* C11: a review started while no usable LLM credential exists makes no
\* provider call, yields the no-key error as its only event and has
\* terminated when handleReview's first span ends.
C11_NoCredentialAtStart ==
    [][(HandleReview /\ NoUsableGemini(VaultAtCall, now)) =>
          (/\ gen'.pc = "done"
           /\ gen'.calls = 0
           /\ reviewMarkdown' = <<ErrNoKey>>
           /\ usageMetadata' = Null
           /\ ~isReviewing')]_vars

\* C11 witness: a run over a vault whose only LLM key is still marked ended
\* at once with the no-key error.
C11_Witness ==
    /\ \E i \in 1..Len(keys) : keys[i].type = "gemini"
    /\ NoUsableGemini(keys, now)
    /\ gen.pc = "done"
    /\ gen.calls = 0
    /\ gen.attempt = 0
    /\ reviewMarkdown = <<ErrNoKey>>

\* The run has ended and every provider call of it was rejected with 429/403.
AllAttemptsRejected ==
    gen.pc = "done" /\ gen.calls >= 1 /\ gen.calls = gen.attempt

\* The error events among the texts the consumer holds.
ErrorEvents(md) == {i \in 1..Len(md) : md[i][1] = "error"}

\* C12 as stated: a run whose attempts were all rejected ends with the
\* exhausted error, after the ceiling of three attempts.
C12_Original ==
    AllAttemptsRejected =>
        /\ gen.attempt = maxAttempts
        /\ reviewMarkdown # <<>>
        /\ reviewMarkdown[Len(reviewMarkdown)] = ErrExhausted

\* C12: a run whose attempts were all rejected ends with exactly one error
\* event, its last event: the exhausted error when the ceiling of three
\* attempts was reached, and the no-key error when getValidKey found no
\* usable key before; the exhausted error never appears below the ceiling.
C12_ExhaustedOrNoKey ==
    /\ AllAttemptsRejected =>
          /\ Cardinality(ErrorEvents(reviewMarkdown)) = 1
          /\ reviewMarkdown[Len(reviewMarkdown)] =
                 IF gen.attempt = maxAttempts THEN ErrExhausted ELSE ErrNoKey
    /\ \A i \in 1..Len(reviewMarkdown) :
          reviewMarkdown[i] = ErrExhausted => gen.attempt = maxAttempts

\* C12 witness: three attempts with three keys, all rejected.
C12_Witness ==
    /\ AllAttemptsRejected
    /\ gen.attempt = maxAttempts
    /\ reviewMarkdown[Len(reviewMarkdown)] = ErrExhausted

\* The error is a rejection of the provider with status 429 or 403.
IsRejection(message) == message \in {"429 Too Many Requests", "403 Forbidden"}

\* C13: when a provider call or stream fails with an error that is not a
\* 429/403 rejection, no further attempt is made, no credential is marked,
\* and the upstream message is yielded as the one and last event of the run.
C13_OtherErrorTerminates ==
    [][\A message \in ErrorKinds :
          (StreamError(message) /\ ~IsRejection(message)) =>
              (/\ keys' = keys
               /\ gen'.pc = "done"
               /\ gen'.calls = gen.calls
               /\ reviewMarkdown' = Append(reviewMarkdown, ErrUpstream(message))
               /\ ErrorEvents(reviewMarkdown') = {Len(reviewMarkdown')}
               /\ ~isReviewing')]_vars

\* A run makes at most three provider calls, and a run that has ended without
\* a completed stream has yielded an error message.
C14_Bounded ==
    /\ gen.calls <= maxAttempts
    /\ gen.attempt <= maxAttempts
    /\ (gen.pc = "done" /\ ~gen.completed) => ErrorEvents(reviewMarkdown) # {}

----------------------------------------------------------------------------
(* Claims about the outcome of fetchWithRetry *)

\* The statuses the upstream service answers with.
UpstreamStatuses ==
    {script.final : script \in Scripts} \cup {script.rejectStatus : script \in Scripts}

\* The call has ended on a 403/429 answer: its attempts were exhausted, or
\* the vault had no usable credential for the attempt.
ExhaustedEnd(q) ==
    /\ q.pc = "done"
    /\ ~ThrowsAt(q.script, q.attempt + 1)
    /\ IsRateLimitStatus(StatusAt(q.script, q.attempt + 1))
    /\ (q.attempt >= MaxRetries \/ q.token = Null)

\* C15: a repo-host request that ends because its attempts are exhausted or
\* no usable credential remains gives its caller an outcome of its own, not
\* a response with an upstream status.
C15_DistinctExhaustedOutcome ==
    \A r \in Slots :
        ExhaustedEnd(reqs[r]) =>
            (reqs[r].threw \/ reqs[r].result \notin UpstreamStatuses)

----------------------------------------------------------------------------
(* Claims about the Sidebar's extraction *)

\* The text with every occurrence of pat removed.
RECURSIVE WithoutAll(_, _)
WithoutAll(text, pat) ==
    IF indexOfText(text, pat, 1) = 0 THEN text
    ELSE WithoutAll(removeFirst(text, pat), pat)

\* A complete fenced block that parses and carries both keys is in the text.
HoldsValidBlock(text) == indexOfText(text, ValidBlock, 1) # 0

\* C16: once a complete fenced block that parses and carries both mandatory
\* keys is in the buffer, the narrative is the accumulated text with that
\* fenced region removed (compared after trimming, as the Sidebar trims).
C16_BlockRemovedFromNarrative ==
    HoldsValidBlock(reviewMarkdown) =>
        cleanMarkdown = trim(WithoutAll(reviewMarkdown, ValidBlock))

IsWord(tok) == tok \in {"Hello", "World"}

\* The narrative words of a text, in order.
Words(text) == SelectSeq(text, IsWord)

\* While the accumulated text holds no complete block with both keys: nothing
\* has been emitted in this run, and the narrative shown holds every
\* narrative word of the text; a run that has ended left the loaded view.
C17_NothingEmitted ==
    /\ ~HoldsValidBlock(reviewMarkdown) =>
          /\ emitCount = 0
          /\ localResult = Null
          /\ Words(cleanMarkdown) = Words(reviewMarkdown)
    /\ ~isReviewing => viewState = "REPO_LOADED"

----------------------------------------------------------------------------
(* Claims about the ranking step of fetchFileContents *)

Ranked == rankPc \in {"ranked", "reranked"}

\* The files of a list whose path ends with an extension of the allow-list.
EligibleOf(fs) ==
    {fs[i] : i \in {k \in 1..Len(fs) : \E ext \in interestingExtensions : endsWith(fs[k].path, ext)}}

SelectedFiles == {sortedFiles[i] : i \in 1..Len(sortedFiles)}

NodeModulesDir == <<"n","o","d","e","_","m","o","d","u","l","e","s","/">>

\* C19: no selected file has a path that contains node_modules/.
C19_NeverNodeModules ==
    Ranked => \A i \in 1..Len(sortedFiles) : ~includesText(sortedFiles[i].path, NodeModulesDir)

\* The characters of a path in the order of their code units.
CodeUnitOrder ==
    <<"-",".","/","0","1","2","3","4","5","6","7","8","9","A","B","C","D","E","F","G","H","I","J","K","L","M","N","O","P","Q","R","S","T","U","V","W","X","Y","Z","_","a","b","c","d","e","f","g","h","i","j","k","l","m","n","o","p","q","r","s","t","u","v","w","x","y","z">>

\* item a may stand before item b: higher score, or equal score and fewer
\* segments, or both equal and the paths in order (byPath <= 0).
InOrder(a, b, byPath) ==
    \/ a.score > b.score
    \/ /\ a.score = b.score
       /\ \/ Len(split(a.file.path)) < Len(split(b.file.path))
          \/ /\ Len(split(a.file.path)) = Len(split(b.file.path))
             /\ byPath <= 0

\* C20 as stated: the selected files stand in the order score descending,
\* depth ascending, path ascending by code units, and no eligible file that
\* was not selected may stand before a selected one.
C20_Original ==
    Ranked =>
        LET selected == scoreAll(sortedFiles)
            left == scoreAll(SelectSeq(files, LAMBDA f : f \in EligibleOf(files) \ SelectedFiles))
            ByCodeUnits(a, b) == lexCompare(a.file.path, b.file.path, CodeUnitOrder)
        IN /\ \A i \in 1..Len(selected), j \in 1..Len(selected) :
                i < j => InOrder(selected[i], selected[j], ByCodeUnits(selected[i], selected[j]))
           /\ \A i \in 1..Len(selected), j \in 1..Len(left) :
                InOrder(selected[i], left[j], ByCodeUnits(selected[i], left[j]))

\* C20: the selected files stand in the order score descending, depth
\* ascending, path ascending under localeCompare (letters compared without
\* regard to case first), and every eligible file that was not selected comes
\* after every selected one in that order.
C20_OrderedByLocaleCompare ==
    Ranked =>
        LET selected == scoreAll(sortedFiles)
            left == scoreAll(SelectSeq(files, LAMBDA f : f \in EligibleOf(files) \ SelectedFiles))
            ByLocale(a, b) == localeCompare(a.file.path, b.file.path)
        IN /\ \A i \in 1..Len(selected), j \in 1..Len(selected) :
                i < j => InOrder(selected[i], selected[j], ByLocale(selected[i], selected[j]))
           /\ \A i \in 1..Len(selected), j \in 1..Len(left) :
                InOrder(selected[i], left[j], ByLocale(selected[i], left[j]))

\* C20 witness: a ranked list in which two neighbours have equal score and
\* depth and the first has the greater path by code units, two neighbours
\* differ in depth only, and eligible files were left out.
C20_Witness ==
    /\ Ranked
    /\ EligibleOf(files) \ SelectedFiles # {}
    /\ \E i \in 1..(Len(sortedFiles) - 1) :
         /\ scoreFile(sortedFiles[i]) = scoreFile(sortedFiles[i + 1])
         /\ Len(split(sortedFiles[i].path)) = Len(split(sortedFiles[i + 1].path))
         /\ lexCompare(sortedFiles[i].path, sortedFiles[i + 1].path, CodeUnitOrder) > 0
    /\ \E i \in 1..(Len(sortedFiles) - 1) :
         /\ scoreFile(sortedFiles[i]) = scoreFile(sortedFiles[i + 1])
         /\ Len(split(sortedFiles[i].path)) < Len(split(sortedFiles[i + 1].path))

----------------------------------------------------------------------------
(* Claims about fetchRepoDetails *)

MetadataSucceeded == collect.issued # {} /\ collect.issued # {"info"}

\* C21: fetchRepoDetails throws only on the answer to the metadata request,
\* with one of its two errors; once the other requests have been issued it
\* does not throw.
C21_FailsOnlyOnMetadata ==
    collect.pc = "threw" =>
        /\ ~MetadataSucceeded
        /\ collect.error \in {"GitHub API rate limit exceeded", "Repository not found or private"}

\* C22: for a repository without default branch whose metadata was read, no
\* commits, contributors or tree request is issued, fetchRepoDetails does not
\* throw, and the bundle it returns has no commits, contributors and files.
C22_EmptyRepository ==
    (MetadataSucceeded /\ ~collect.repo.default_branch) =>
        /\ collect.issued \cap {"commits", "contributors", "tree"} = {}
        /\ collect.pc # "threw"
        /\ collect.pc = "returned" =>
             collect.commits = <<>> /\ collect.contributors = <<>> /\ collect.files = <<>>

\* The paths of the files the ranker selects from a list.
SelectedPaths(fs) == {rank(fs)[i].path : i \in 1..Len(rank(fs))}

\* C23: in the list fetchFileContents returned, a file has content only if
\* the ranker selected it, and no content is longer than 8000 characters.
C23_ContentOnlyForSelected ==
    collect.pc \in {"readme", "returned"} =>
        LET selected == SelectedPaths(collect.files) IN
        \A i \in 1..Len(collect.files) :
            collect.files[i].content.len > 0 =>
                /\ collect.files[i].path \in selected
                /\ collect.files[i].content.len <= 8000

\* The place of a path in a list of files, 0 when it is not there.
PlaceOf(fs, path) ==
    IF \E i \in 1..Len(fs) : fs[i].path = path
    THEN CHOOSE i \in 1..Len(fs) : fs[i].path = path
    ELSE 0

\* C25: the snippets of the prompt are selected files, in ranking order.
C25_SnippetsInRankOrder ==
    collect.pc = "returned" =>
        LET snippets == significantFiles(collect.files)
            ranked == rank(collect.files)
        IN /\ \A i \in 1..Len(snippets) : PlaceOf(ranked, snippets[i].path) # 0
           /\ \A i \in 1..Len(snippets), j \in 1..Len(snippets) :
                i < j => PlaceOf(ranked, snippets[i].path) < PlaceOf(ranked, snippets[j].path)

----------------------------------------------------------------------------
(* Claims about the keys of the environment and the ids of the vault *)

IsEnvKey(k) == k.id[1] = "env"

\* C24: no key that was injected from the environment is in localStorage.
C24_EnvKeysNeverStored ==
    \A i \in 1..Len(storage.items) : ~IsEnvKey(storage.items[i])

\* C29: no two credentials of the vault have the same id, and removeKey takes
\* exactly one credential away.
C29_UniqueIds ==
    /\ [](\A i \in 1..Len(keys), j \in 1..Len(keys) : i # j => keys[i].id # keys[j].id)
    /\ [][\A id \in KeyIds : RemoveKey(id) => Len(keys') = Len(keys) - 1]_vars

----------------------------------------------------------------------------
(* Claims about handleReview and handleReset *)

\* C26: every step of a review run that leaves the generator finished (its
\* stream ended, it yielded a final error event, or it threw) leaves
\* isReviewing false and the view REPO_LOADED; the view is ANALYZING only
\* while a stream is open.
C26_RunEndsLoaded ==
    /\ [][(ReviewStep /\ gen'.pc = "done") =>
              (isReviewing' = FALSE /\ viewState' = "REPO_LOADED")]_vars
    /\ [](gen.pc # "streaming" => (viewState # "ANALYZING" /\ ~isReviewing))

\* C26 witness: a run has ended with the exhausted error after the Change
\* button was pressed during its stream.
C26_Witness ==
    /\ gen.pc = "done"
    /\ gen.attempt = maxAttempts
    /\ repoInfo = Null
    /\ ~isReviewing
    /\ viewState = "REPO_LOADED"

\* C28: while no repository is loaded (after handleReset) the review state is
\* empty, and the view is REPO_LOADED only when a repository is loaded.
C28_ResetHolds ==
    /\ repoInfo = Null =>
         (reviewMarkdown = <<>> /\ aiAnalysis = Null /\ usageMetadata = Null)
    /\ viewState = "REPO_LOADED" => repoInfo # Null

----------------------------------------------------------------------------
(* Claims about generateReviewStreamOllama *)

\* The response fields of the lines of a body, in order, without the empty ones.
ResponsesOf(body) ==
    LET lines == SelectSeq(splitLines(body, <<>>), LAMBDA line : line # <<>>)
        texts == [i \in 1..Len(lines) |-> ResponseOf(lines[i])]
    IN SelectSeq(texts, LAMBDA t : t # "")

\* C27: when the read loop is over, the texts yielded are the response fields
\* of all lines the daemon sent, in order.
C27_AllResponsesYielded ==
    ollama.pc = "done" => ollama.texts = ResponsesOf(ollama.sent)

----------------------------------------------------------------------------
(* Claims about what the Sidebar removes *)

\* The tokens of a text that are not whitespace (the Sidebar trims, and a
\* removed block may leave its surrounding whitespace behind).
Solid(text) == SelectSeq(text, NotWs)

\* The accumulated text without the fenced region of the object that was
\* passed to onAnalysisComplete in this run, if one was.
WithoutEmitted(text) ==
    IF localResult = Null THEN text ELSE removeFirst(text, ValidBlock)

\* C30: every part of the accumulated text is kept in the narrative or
\* belongs to the fenced block that was emitted: a fenced json block that
\* parses without the mandatory keys, or that follows the first emission, is
\* still in the narrative.
C30_OnlyEmittedBlockRemoved ==
    emitCount <= 1 => Solid(cleanMarkdown) = Solid(WithoutEmitted(reviewMarkdown))

============================================================================
